---- MODULE Spec2Model ----
(***************************************************************************)
(* Hierarchy engine of the organisation chart generator.                   *)
(*                                                                         *)
(*   - the key-value store of employees, organisation indexes and          *)
(*     organisations (VercelKVService over memoryStore);                   *)
(*   - the edge-mode validator (HierarchyValidatorService) and the         *)
(*     updateManager mutation that calls it before committing, one action  *)
(*     per synchronous segment between two awaits;                         *)
(*   - ingestion: identifyColumns, generateHierarchy with its batch cycle  *)
(*     detection, validateStructure and the parseUploadedFile mutation     *)
(*     that persists the parsed employees.                                 *)
(***************************************************************************)
EXTENDS Integers, Sequences, FiniteSets, TLC

\* Number of employee ids of the store; also the largest number of data rows
\* of an uploaded grid (an upload creates one id per kept row).
NEmp == 3

EmpIds == 1..NEmp

Orgs == {"default-org", "org2"}

Users == {"user1", "user2"}

\* ctx.session?.user?.id of a request without a session.
NoUser == "no-user"

\* managerId: null of an Employee (ids are positive).
NullId == 0

\* An id a request may name although no record was ever stored under it.
UnknownId == NEmp + 1

RequestIds == EmpIds \cup {UnknownId}

Requests == {"r1", "r2"}

VARIABLES
  employee,       \* memoryStore 'employee:<id>'       : id -> Employee or null
  orgEmployees,   \* memoryStore 'org_employees:<org>' : org -> sequence of ids
  organization,   \* memoryStore 'organization:<org>'  : org -> Organization or null
  req,            \* the updateManager requests: position and locals of each
  grid,           \* the 2-D grid parseFile produced: header row, then data rows
  structure,      \* the result of a direct call of generateHierarchy
  upload,         \* the outcome of parseUploadedFile
  call,           \* the arguments of the direct call of generateHierarchy
  identified,     \* the result of a direct call of identifyColumns
  view,           \* the chart viewer: its employees prop, its state, its layout
  page            \* the chart page: the client store and the saves it started

vars ==
  <<employee, orgEmployees, organization, req, grid, structure, upload, call, identified,
    view, page>>

(***************************************************************************)
(* Helpers on sequences and sets.                                          *)
(***************************************************************************)
Range(s) == {s[i] : i \in 1..Len(s)}

Includes(s, x) == \E i \in 1..Len(s) : s[i] = x

\* The ids of S in ascending order.
RECURSIVE Ascending(_)
Ascending(S) ==
  IF S = {} THEN <<>>
  ELSE LET x == CHOOSE y \in S : \A z \in S : y <= z
       IN <<x>> \o Ascending(S \ {x})

(***************************************************************************)
(* DatabaseService (VercelKVService).                                      *)
(***************************************************************************)
Employee(id, name, org, mgr) ==
  [id |-> id, name |-> name, organizationId |-> org, managerId |-> mgr]

\* The value `null` where an Employee is expected.
NullEmployee == Employee(NullId, "", "", NullId)

\* The value `null` where an Organization is expected.
NullOrganization == [id |-> "", userId |-> ""]

\* getEmployee: memoryStore.get('employee:' + id) || null
getEmployee(id) == IF id \in DOMAIN employee THEN employee[id] ELSE NullEmployee

\* getOrganization: memoryStore.get('organization:' + id) || null
getOrganization(id) ==
  IF id \in DOMAIN organization THEN organization[id] ELSE NullOrganization

\* The index read that opens getEmployeesByOrganization:
\* memoryStore.get('org_employees:' + organizationId) || []
getOrgEmployeeIds(org) == IF org \in DOMAIN orgEmployees THEN orgEmployees[org] ELSE <<>>

\* updateEmployee: memoryStore.set('employee:' + employee.id, employee)
updateEmployee(store, emp) == [store EXCEPT ![emp.id] = emp]

\* The outcome of an awaited collaborator call: the value it resolved to, or a
\* rejection (every method of the service rethrows what it catches).
Returned(value) == [fault |-> FALSE, value |-> value]

Threw(nullValue) == [fault |-> TRUE, value |-> nullValue]

Call(value, nullValue) == {Returned(value), Threw(nullValue)}

(***************************************************************************)
(* HierarchyValidatorService.                                              *)
(***************************************************************************)
\* new Map(); allEmployees.forEach(emp => employeeMap.set(emp.id, emp))
EmployeeMap(allEmployees) ==
  [id \in Range([i \in 1..Len(allEmployees) |-> allEmployees[i].id]) |->
     LET last == CHOOSE i \in 1..Len(allEmployees) :
                   /\ allEmployees[i].id = id
                   /\ \A j \in 1..Len(allEmployees) : allEmployees[j].id = id => j <= i
     IN allEmployees[last]]

\* employeeMap.get(id): undefined (here the null employee) for an absent key.
MapGet(employeeMap, id) ==
  IF id \in DOMAIN employeeMap THEN employeeMap[id] ELSE NullEmployee

\* isSubordinate without the walk up the chain: only a direct report of
\* managerId is recognised.
isSubordinateDirectOnly(managerId, potentialSubordinateId, employeeMap, visited) ==
  LET emp == MapGet(employeeMap, potentialSubordinateId)
  IN emp # NullEmployee /\ emp.managerId # NullId /\ emp.managerId = managerId

RECURSIVE isSubordinate(_, _, _, _)
isSubordinate(managerId, potentialSubordinateId, employeeMap, visited) ==
  IF potentialSubordinateId \in visited THEN FALSE
  ELSE LET emp == MapGet(employeeMap, potentialSubordinateId)
       IN IF emp = NullEmployee \/ emp.managerId = NullId THEN FALSE
          ELSE IF emp.managerId = managerId THEN TRUE
          ELSE isSubordinate(managerId, emp.managerId, employeeMap,
                             visited \cup {potentialSubordinateId})

Invalid(code) == [isValid |-> FALSE, errorCode |-> code]

Valid == [isValid |-> TRUE, errorCode |-> "none"]

\* checkCircularRelationship whose catch block returns false: a failed load
\* lets the edit through.
checkCircularRelationshipFailOpen(employeeId, newManagerId, loaded) ==
  IF loaded.fault THEN FALSE
  ELSE isSubordinate(employeeId, newManagerId, EmployeeMap(loaded.value), {})

\* checkCircularRelationship once getEmployeesByOrganization has settled:
\* `loaded` is the outcome of that call.
checkCircularRelationship(employeeId, newManagerId, loaded) ==
  IF loaded.fault THEN TRUE
  ELSE isSubordinate(employeeId, newManagerId, EmployeeMap(loaded.value), {})

\* What validateHierarchyUpdate decides when getEmployee(employeeId) settles:
\* an error code, or "pass" (step 1; the catch block gives INTERNAL_ERROR).
AfterEmployee(employeeCall) ==
  IF employeeCall.fault THEN "INTERNAL_ERROR"
  ELSE IF employeeCall.value = NullEmployee THEN "EMPLOYEE_NOT_FOUND"
  ELSE "pass"

\* Steps 2 and 3 with a failed load of the new manager taken for a missing
\* manager.
AfterNewManagerFaultAsNotFound(emp, newManagerCall) ==
  IF newManagerCall.fault \/ newManagerCall.value = NullEmployee
  THEN "MANAGER_NOT_FOUND"
  ELSE IF emp.organizationId # newManagerCall.value.organizationId
  THEN "DIFFERENT_ORGANIZATIONS"
  ELSE "pass"

\* ... when getEmployee(newManagerId) settles (steps 2 and 3).
AfterNewManager(emp, newManagerCall) ==
  IF newManagerCall.fault THEN "INTERNAL_ERROR"
  ELSE IF newManagerCall.value = NullEmployee THEN "MANAGER_NOT_FOUND"
  ELSE IF emp.organizationId # newManagerCall.value.organizationId
  THEN "DIFFERENT_ORGANIZATIONS"
  ELSE "pass"

\* Steps 4 and 5 without the self-management check.
AfterOrganizationNoSelfCheck(organizationCall, userId, employeeId, newManagerId) ==
  IF organizationCall.fault THEN "INTERNAL_ERROR"
  ELSE IF \/ organizationCall.value = NullOrganization
          \/ organizationCall.value.userId # userId
  THEN "UNAUTHORIZED_ACCESS"
  ELSE "pass"

\* Steps 4 and 5 in the other order: self-management before ownership.
AfterOrganizationSelfFirst(organizationCall, userId, employeeId, newManagerId) ==
  IF organizationCall.fault THEN "INTERNAL_ERROR"
  ELSE IF employeeId = newManagerId THEN "SELF_MANAGEMENT"
  ELSE IF \/ organizationCall.value = NullOrganization
          \/ organizationCall.value.userId # userId
  THEN "UNAUTHORIZED_ACCESS"
  ELSE "pass"

\* ... when getOrganization settles (steps 4 and 5).
AfterOrganization(organizationCall, userId, employeeId, newManagerId) ==
  IF organizationCall.fault THEN "INTERNAL_ERROR"
  ELSE IF \/ organizationCall.value = NullOrganization
          \/ organizationCall.value.userId # userId
  THEN "UNAUTHORIZED_ACCESS"
  ELSE IF employeeId = newManagerId THEN "SELF_MANAGEMENT"
  ELSE "pass"

\* updateManager's mapping of a failed validation to a TRPCError code.
ErrorResponse(validation) ==
  IF validation.errorCode = "UNAUTHORIZED_ACCESS" THEN "FORBIDDEN" ELSE "BAD_REQUEST"

(***************************************************************************)
(* updateManager (organization router).  A request runs as a chain of      *)
(* synchronous segments, each ending at an await; the store is read or     *)
(* written when a collaborator is called, and the outcome is looked at     *)
(* when the request resumes.  Segments that touch no shared state are      *)
(* folded into the segment that follows them.                              *)
(***************************************************************************)
NoValidation == [isValid |-> FALSE, errorCode |-> "pending"]

IdleRequest ==
  [pc |-> "idle", employeeId |-> NullId, newManagerId |-> NullId, userId |-> NoUser,
   employee |-> Returned(NullEmployee), newManager |-> Returned(NullEmployee),
   organization |-> Returned(NullOrganization),
   employeeIds |-> <<>>, employees |-> <<>>, pending |-> Returned(NullEmployee),
   loaded |-> Returned(<<>>), validation |-> NoValidation,
   currentEmployee |-> Returned(NullEmployee), updated |-> Returned(NullEmployee),
   outcome |-> "none", previousManagerId |-> NullId]

\* validateHierarchyUpdate returned `validation` with isValid = false:
\* updateManager throws the TRPCError and the request is over.
Rejected(r, validation) ==
  req' = [req EXCEPT ![r].pc = "done",
                     ![r].validation = validation,
                     ![r].outcome = ErrorResponse(validation)]

\* updateManager threw `code` outside validation.
Failed(r, code) ==
  req' = [req EXCEPT ![r].pc = "done", ![r].outcome = code]

\* The mutation is entered by a request with no locals yet: session check,
\* then validateHierarchyUpdate calls getEmployee(employeeId).
Enter(r, e, m, u) ==
  LET fresh == [IdleRequest EXCEPT !.employeeId = e, !.newManagerId = m, !.userId = u]
  IN IF u = NoUser
     THEN req' = [req EXCEPT ![r] = [fresh EXCEPT !.pc = "done",
                                                  !.outcome = "UNAUTHORIZED"]]
     ELSE \E res \in Call(getEmployee(e), NullEmployee) :
            req' = [req EXCEPT ![r] = [fresh EXCEPT !.pc = "awaitEmployee",
                                                    !.employee = res]]

\* Step 1 of the validator is decided; getEmployee(newManagerId) is called.
ResumeEmployee(r) ==
  LET c == req[r]
  IN /\ c.pc = "awaitEmployee"
     /\ IF AfterEmployee(c.employee) # "pass"
        THEN Rejected(r, Invalid(AfterEmployee(c.employee)))
        ELSE \E res \in Call(getEmployee(c.newManagerId), NullEmployee) :
               req' = [req EXCEPT ![r].pc = "awaitNewManager", ![r].newManager = res]
     /\ UNCHANGED <<employee, orgEmployees, organization, grid, structure, upload,
                 call, identified, view, page>>

\* Steps 2 and 3 are decided; getOrganization is called.
ResumeNewManager(r) ==
  LET c == req[r]
  IN /\ c.pc = "awaitNewManager"
     /\ IF AfterNewManager(c.employee.value, c.newManager) # "pass"
        THEN Rejected(r, Invalid(AfterNewManager(c.employee.value, c.newManager)))
        ELSE \E res \in Call(getOrganization(c.employee.value.organizationId),
                             NullOrganization) :
               req' = [req EXCEPT ![r].pc = "awaitOrganization",
                                  ![r].organization = res]
     /\ UNCHANGED <<employee, orgEmployees, organization, grid, structure, upload,
                 call, identified, view, page>>

\* Steps 4 and 5 are decided; checkCircularRelationship calls
\* getEmployeesByOrganization, which reads the index and calls getEmployee for
\* its first id.
ResumeOrganization(r) ==
  LET c == req[r]
      decided == AfterOrganization(c.organization, c.userId, c.employeeId,
                                   c.newManagerId)
  IN /\ c.pc = "awaitOrganization"
     /\ IF decided # "pass" THEN Rejected(r, Invalid(decided))
        ELSE \E ids \in Call(getOrgEmployeeIds(c.employee.value.organizationId), <<>>) :
               IF ids.fault
               THEN req' = [req EXCEPT ![r].pc = "awaitOrgEmployees",
                                       ![r].loaded = Threw(<<>>)]
               ELSE IF ids.value = <<>>
               THEN req' = [req EXCEPT ![r].pc = "awaitOrgEmployees",
                                       ![r].loaded = Returned(<<>>)]
               ELSE \E res \in Call(getEmployee(Head(ids.value)), NullEmployee) :
                      req' = [req EXCEPT ![r].pc = "awaitOrgEmployee",
                                         ![r].employeeIds = ids.value,
                                         ![r].employees = <<>>,
                                         ![r].pending = res]
     /\ UNCHANGED <<employee, orgEmployees, organization, grid, structure, upload,
                 call, identified, view, page>>

\* One turn of the loop of getEmployeesByOrganization: the awaited employee
\* is pushed when it is not null and getEmployee is called for the next id.
ResumeOrgEmployee(r) ==
  LET c == req[r]
      pushed == IF c.pending.value = NullEmployee THEN c.employees
                ELSE Append(c.employees, c.pending.value)
      rest == Tail(c.employeeIds)
  IN /\ c.pc = "awaitOrgEmployee"
     /\ IF c.pending.fault
        THEN req' = [req EXCEPT ![r].pc = "awaitOrgEmployees",
                                ![r].loaded = Threw(<<>>)]
        ELSE IF rest = <<>>
        THEN req' = [req EXCEPT ![r].pc = "awaitOrgEmployees",
                                ![r].employeeIds = rest,
                                ![r].employees = pushed,
                                ![r].loaded = Returned(pushed)]
        ELSE \E res \in Call(getEmployee(Head(rest)), NullEmployee) :
               req' = [req EXCEPT ![r].employeeIds = rest,
                                  ![r].employees = pushed,
                                  ![r].pending = res]
     /\ UNCHANGED <<employee, orgEmployees, organization, grid, structure, upload,
                 call, identified, view, page>>

\* Step 6 is decided and validateHierarchyUpdate returns; when it is valid,
\* updateManager calls getEmployee(employeeId) for the current record.
ResumeOrgEmployees(r) ==
  LET c == req[r]
  IN /\ c.pc = "awaitOrgEmployees"
     /\ IF checkCircularRelationship(c.employeeId, c.newManagerId, c.loaded)
        THEN Rejected(r, Invalid("CIRCULAR_RELATIONSHIP"))
        ELSE \E res \in Call(getEmployee(c.employeeId), NullEmployee) :
               req' = [req EXCEPT ![r].pc = "awaitCurrentEmployee",
                                  ![r].validation = Valid,
                                  ![r].currentEmployee = res]
     /\ UNCHANGED <<employee, orgEmployees, organization, grid, structure, upload,
                 call, identified, view, page>>

\* The written record rebuilt from the request alone, losing the fields of
\* the current record.
UpdatedEmployeeRebuilt(currentEmployee, newManagerId) ==
  Employee(currentEmployee.id, "", currentEmployee.organizationId, newManagerId)

\* The record updateManager writes: { ...currentEmployee, managerId: newManagerId }
UpdatedEmployee(currentEmployee, newManagerId) ==
  [currentEmployee EXCEPT !.managerId = newManagerId]

\* The current record arrived; updateEmployee is called with the new manager.
ResumeCurrentEmployee(r) ==
  LET c == req[r]
      updatedEmployee == UpdatedEmployee(c.currentEmployee.value, c.newManagerId)
  IN /\ c.pc = "awaitCurrentEmployee"
     /\ IF c.currentEmployee.fault
        THEN Failed(r, "INTERNAL_SERVER_ERROR") /\ UNCHANGED employee
        ELSE IF c.currentEmployee.value = NullEmployee
        THEN Failed(r, "NOT_FOUND") /\ UNCHANGED employee
        ELSE \/ /\ employee' = updateEmployee(employee, updatedEmployee)
                /\ req' = [req EXCEPT ![r].pc = "awaitUpdateEmployee",
                                      ![r].updated = Returned(updatedEmployee)]
             \/ /\ UNCHANGED employee
                /\ req' = [req EXCEPT ![r].pc = "awaitUpdateEmployee",
                                      ![r].updated = Threw(NullEmployee)]
     /\ UNCHANGED <<orgEmployees, organization, grid, structure, upload,
                 call, identified, view, page>>

\* updateEmployee settled: the success response, or the error of its fault.
ResumeUpdateEmployee(r) ==
  LET c == req[r]
  IN /\ c.pc = "awaitUpdateEmployee"
     /\ IF c.updated.fault
        THEN Failed(r, "INTERNAL_SERVER_ERROR")
        ELSE req' = [req EXCEPT ![r].pc = "done",
                                ![r].outcome = "success",
                                ![r].previousManagerId =
                                  c.currentEmployee.value.managerId]
     /\ UNCHANGED <<employee, orgEmployees, organization, grid, structure, upload,
                 call, identified, view, page>>

Resume(r) ==
  \/ ResumeEmployee(r)
  \/ ResumeNewManager(r)
  \/ ResumeOrganization(r)
  \/ ResumeOrgEmployee(r)
  \/ ResumeOrgEmployees(r)
  \/ ResumeCurrentEmployee(r)
  \/ ResumeUpdateEmployee(r)

InFlight(r) == req[r].pc \notin {"idle", "done"}

\* A request whose response was sent leaves the server.
Respond(r) ==
  /\ req[r].pc = "done"
  /\ req' = [req EXCEPT ![r] = IdleRequest]
  /\ UNCHANGED <<employee, orgEmployees, organization, grid, structure, upload,
                 call, identified, view, page>>

\* Requests handled one at a time: a request is entered only when no other
\* is on the server.
UpdateManager(r) ==
  /\ \A q \in Requests : req[q].pc = "idle"
  /\ \E e \in RequestIds, m \in RequestIds, u \in Users \cup {NoUser} : Enter(r, e, m, u)
  /\ UNCHANGED <<employee, orgEmployees, organization, grid, structure, upload,
                 call, identified, view, page>>

\* Requests entered while another is in flight (two calls of one batch, or
\* two invocations of the function): nothing in the router or the service
\* orders them.
UpdateManagerConcurrently(r) ==
  /\ req[r].pc = "idle"
  /\ \E e \in EmpIds, m \in EmpIds : Enter(r, e, m, "user1")
  /\ UNCHANGED <<employee, orgEmployees, organization, grid, structure, upload,
                 call, identified, view, page>>

(***************************************************************************)
(* AIParserService: identifyColumns.  Scores are kept in tenths.           *)
(***************************************************************************)
\* Largest number of data rows of a grid.
MaxRows == 3

PATTERN_MATCH == 4

FALLBACK_BOOST == 2

BOTH_COLUMNS_BONUS == 2

HIGH_CONFIDENCE == 6

MANAGER_CONFIDENCE == 5

\* Points of calculateNameScore, in tenths.
NAME_SHAPE_POINTS == 3

TWO_WORDS_POINTS == 2

PENALTY_POINTS == 1

\* The bonus of calculateManagerScore, in tenths, given when fewer than
\* UNIQUE_RATIO tenths of the values are unique.
MANAGER_BONUS == 2

UNIQUE_RATIO == 8

\* The fallback analyses the first 5 data rows.
SAMPLE_ROWS == 5

\* A column index that is null.
NullColumn == -2

\* The -1 parseUploadedFile passes for "no manager column".
NoManagerColumn == -1

\* Cell texts of the grids and what the string tests of the source give on
\* them: value.trim(), /^[a-zA-Z\s'-]+$/ with length > 1, split(' ').length >= 2
\* and the digit/punctuation test.
CellValues == {"", "Al", "Bo", "Cy", "Al Bo"}

Trim(v) == IF v = "  " THEN "" ELSE IF v = " Al " THEN "Al" ELSE v

LooksLikeName(v) == v \in {"Al", "Bo", "Cy", "Al Bo"}

HasTwoWords(v) == v \in {"Al Bo"}

HasPenaltyCharacter(v) == FALSE

\* NAME_PATTERNS, MANAGER_PATTERNS and TITLE_PATTERNS on the headers in use.
MatchesNamePattern(header) == header \in {"Name"}

MatchesManagerPattern(header) == header \in {"Manager"}

MatchesTitlePattern(header) == header \in {"Title"}

\* A cell read in which the index -1 gives the last cell of the row.
CellFromEnd(row, col) ==
  IF col + 1 \in 1..Len(row) THEN Trim(row[col + 1])
  ELSE IF col = -1 /\ row # <<>> THEN Trim(row[Len(row)])
  ELSE ""

\* String(row[col] || '').trim() with a 0-based column index; a column the
\* row does not have gives ''.
Cell(row, col) == IF col + 1 \in 1..Len(row) THEN Trim(row[col + 1]) ELSE ""

\* The rightmost of the matching header positions, as a 0-based column index.
LastMatchingColumn(matching) ==
  IF matching # {}
  THEN (CHOOSE i \in matching : \A j \in matching : i >= j) - 1
  ELSE NullColumn

\* The leftmost of the header positions (1-based) matching a pattern list, as
\* a 0-based column index, or null when none matches.
FirstMatchingColumn(matching) ==
  IF matching # {}
  THEN (CHOOSE i \in matching : \A j \in matching : i <= j) - 1
  ELSE NullColumn

RECURSIVE SumPoints(_)
SumPoints(values) ==
  IF values = <<>> THEN 0
  ELSE LET v == Head(values)
       IN (IF LooksLikeName(v) THEN NAME_SHAPE_POINTS ELSE 0)
          + (IF HasTwoWords(v) THEN TWO_WORDS_POINTS ELSE 0)
          - (IF HasPenaltyCharacter(v) THEN PENALTY_POINTS ELSE 0)
          + SumPoints(Tail(values))

NonEmpty(values) == SelectSeq(values, LAMBDA v : v # "")

Clamp(x, lo, hi) == IF x < lo THEN lo ELSE IF x > hi THEN hi ELSE x

\* calculateNameScore(values) > threshold, both in tenths: the score is
\* max(0, min(1, score / validValues.length)) and 0 without valid values.
NameScoreExceeds(values, threshold) ==
  LET n == Len(NonEmpty(values))
  IN n > 0 /\ Clamp(SumPoints(NonEmpty(values)), 0, 10 * n) > threshold * n

\* calculateManagerScore(values) > threshold: the name score plus 0.2 when
\* fewer than 80% of the values are unique, capped at 1.
ManagerScoreExceeds(values, threshold) ==
  LET valid == NonEmpty(values)
      n == Len(valid)
      bonus == IF n > 0 /\ 10 * Cardinality(Range(valid)) < UNIQUE_RATIO * n
               THEN MANAGER_BONUS * n ELSE 0
  IN IF n = 0 THEN 0 > threshold
     ELSE Clamp(Clamp(SumPoints(valid), 0, 10 * n) + bonus, 0, 10 * n) > threshold * n

ColumnValues(rows, col) == [i \in 1..Len(rows) |-> Cell(rows[i], col)]

\* The column loop of applyFallbackLogic from column col on; found holds the
\* columns chosen so far.
RECURSIVE FallbackColumns(_, _, _, _)
FallbackColumns(sampleRows, width, col, found) ==
  IF col >= width THEN found
  ELSE LET values == ColumnValues(sampleRows, col)
           nameColumn ==
             IF NameScoreExceeds(values, HIGH_CONFIDENCE) /\ found.nameColumn = NullColumn
             THEN col ELSE found.nameColumn
           managerColumn ==
             IF /\ ManagerScoreExceeds(values, MANAGER_CONFIDENCE)
                /\ found.managerColumn = NullColumn
                /\ col # nameColumn
             THEN col ELSE found.managerColumn
       IN FallbackColumns(sampleRows, width, col + 1,
                          [found EXCEPT !.nameColumn = nameColumn,
                                        !.managerColumn = managerColumn])

NoColumns ==
  [nameColumn |-> NullColumn, managerColumn |-> NullColumn, titleColumn |-> NullColumn]

applyFallbackLogic(data) ==
  IF Len(data) < 2 THEN NoColumns
  ELSE LET last == IF Len(data) < SAMPLE_ROWS + 1 THEN Len(data) ELSE SAMPLE_ROWS + 1
       IN FallbackColumns(SubSeq(data, 2, last), Len(data[1]), 0, NoColumns)

identifyColumns(data) ==
  IF data = <<>> \/ data[1] = <<>>
  THEN [nameColumn |-> NullColumn, managerColumn |-> NullColumn,
        titleColumn |-> NullColumn, confidence |-> 0]
  ELSE LET headers == data[1]
           byName == FirstMatchingColumn({i \in 1..Len(headers) :
                                            MatchesNamePattern(Trim(headers[i]))})
           byManager == FirstMatchingColumn({i \in 1..Len(headers) :
                                            MatchesManagerPattern(Trim(headers[i]))})
           byTitle == FirstMatchingColumn({i \in 1..Len(headers) :
                                            MatchesTitlePattern(Trim(headers[i]))})
           useFallback == NullColumn \in {byName, byManager, byTitle}
           fallback == IF useFallback THEN applyFallbackLogic(data) ELSE NoColumns
           nameColumn == IF byName = NullColumn THEN fallback.nameColumn ELSE byName
           managerColumn ==
             IF byManager = NullColumn THEN fallback.managerColumn ELSE byManager
           titleColumn == IF byTitle = NullColumn THEN fallback.titleColumn ELSE byTitle
           Points(byPattern, final) ==
             IF byPattern # NullColumn THEN PATTERN_MATCH
             ELSE IF final # NullColumn THEN FALLBACK_BOOST ELSE 0
           confidence ==
             Points(byName, nameColumn) + Points(byManager, managerColumn)
             + Points(byTitle, titleColumn)
             + (IF nameColumn # NullColumn /\ managerColumn # NullColumn
                THEN BOTH_COLUMNS_BONUS ELSE 0)
       IN [nameColumn |-> nameColumn, managerColumn |-> managerColumn,
           titleColumn |-> titleColumn,
           confidence |-> IF confidence > 10 THEN 10 ELSE confidence]

(***************************************************************************)
(* AIParserService: generateHierarchy, detectCircularReporting and         *)
(* validateStructure.  Error strings are kept as records of their parts.   *)
(***************************************************************************)
Error(kind, row, name, manager, path) ==
  [kind |-> kind, row |-> row, name |-> name, manager |-> manager, path |-> path]

\* `Row N: Empty employee name`
EmptyNameError(row) == Error("Empty employee name", row, "", "", <<>>)

\* `Row N: Duplicate employee name "X"`
DuplicateNameError(row, name) == Error("Duplicate employee name", row, name, "", <<>>)

\* `Employee "X" has manager "M" who is not in the employee list`
MissingManagerError(name, manager) ==
  Error("manager not in the employee list", 0, name, manager, <<>>)

\* `Circular reporting detected: A -> B -> ... -> A`
CircularError(path) == Error("Circular reporting detected", 0, "", "", path)

ParsedEmployee(name, manager) == [name |-> name, manager |-> manager]

\* The first pass of generateHierarchy without the check of allEmployeeNames:
\* a row repeating a name is kept.
RECURSIVE FirstPassKeepingRepeats(_, _, _, _, _)
FirstPassKeepingRepeats(dataRows, nameColumn, managerColumn, i, acc) ==
  IF i >= Len(dataRows) THEN acc
  ELSE LET row == dataRows[i + 1]
           employeeName == Cell(row, nameColumn)
           managerName == Cell(row, managerColumn)
           next ==
             IF employeeName = ""
             THEN [acc EXCEPT !.errors = Append(@, EmptyNameError(i + 2))]
             ELSE [acc EXCEPT !.employees =
                                Append(@, ParsedEmployee(employeeName, managerName))]
       IN FirstPassKeepingRepeats(dataRows, nameColumn, managerColumn, i + 1, next)

\* The first pass of generateHierarchy from data row i (0-based) on.
RECURSIVE FirstPass(_, _, _, _, _)
FirstPass(dataRows, nameColumn, managerColumn, i, acc) ==
  IF i >= Len(dataRows) THEN acc
  ELSE LET row == dataRows[i + 1]
           employeeName == Cell(row, nameColumn)
           managerName == Cell(row, managerColumn)
           next ==
             IF employeeName = ""
             THEN [acc EXCEPT !.errors = Append(@, EmptyNameError(i + 2))]
             ELSE IF \E k \in 1..Len(acc.employees) : acc.employees[k].name = employeeName
             THEN [acc EXCEPT !.errors = Append(@, DuplicateNameError(i + 2, employeeName))]
             ELSE [acc EXCEPT !.employees =
                                Append(@, ParsedEmployee(employeeName, managerName))]
       IN FirstPass(dataRows, nameColumn, managerColumn, i + 1, next)

EmployeeNames(employees) == {employees[k].name : k \in 1..Len(employees)}

\* managerToEmployees keeping only the first employee that names a manager.
DirectReportsFirstOnly(employees, name) ==
  LET reports == SelectSeq(employees, LAMBDA e : e.manager # "" /\ e.manager = name)
  IN IF reports = <<>> THEN <<>> ELSE <<reports[1].name>>

\* managerToEmployees[name] || []: the employees naming `name` as manager, in
\* row order.
DirectReports(employees, name) ==
  LET reports == SelectSeq(employees, LAMBDA e : e.manager # "" /\ e.manager = name)
  IN [k \in 1..Len(reports) |-> reports[k].name]

\* The second pass: hierarchy[name] = { employee, directReports, managerId }
BuildHierarchy(employees) ==
  [name \in EmployeeNames(employees) |->
     LET e == employees[CHOOSE k \in 1..Len(employees) : employees[k].name = name]
     IN [employee |-> e,
         directReports |-> DirectReports(employees, name),
         managerId |-> e.manager]]

\* rootEmployees with only the employees that declare no manager.
RootEmployeesWithoutManager(employees) ==
  LET roots == SelectSeq(employees, LAMBDA e : e.manager = "")
  IN [k \in 1..Len(roots) |-> roots[k].name]

\* rootEmployees: the employees without a manager or with a manager that is
\* no employee, in row order.
RootEmployees(employees) ==
  LET roots == SelectSeq(employees,
                 LAMBDA e : e.manager = "" \/ e.manager \notin EmployeeNames(employees))
  IN [k \in 1..Len(roots) |-> roots[k].name]

MissingManagerErrors(employees) ==
  LET orphans == SelectSeq(employees,
                   LAMBDA e : e.manager # "" /\ e.manager \notin EmployeeNames(employees))
  IN [k \in 1..Len(orphans) |-> MissingManagerError(orphans[k].name, orphans[k].manager)]

\* dfs of detectCircularReporting with every revisit of a visited employee
\* reported, as if recursionStack were never popped.
RECURSIVE dfsNeverPopped(_, _, _, _, _)
dfsNeverPopped(hierarchy, employeeName, path, recursionStack, st) ==
  IF employeeName \in recursionStack \/ employeeName \in st.visited
  THEN [st EXCEPT !.errors = Append(@, CircularError(Append(path, employeeName)))]
  ELSE LET seen == [st EXCEPT !.visited = @ \cup {employeeName}]
           managerId == hierarchy[employeeName].managerId
       IN IF managerId # "" /\ managerId \in DOMAIN hierarchy
          THEN dfsNeverPopped(hierarchy, managerId, Append(path, employeeName),
                              recursionStack \cup {employeeName}, seen)
          ELSE seen

\* dfs of detectCircularReporting without the visited set: an employee met
\* again after its call returned is walked again.
RECURSIVE dfsIgnoringVisited(_, _, _, _, _)
dfsIgnoringVisited(hierarchy, employeeName, path, recursionStack, st) ==
  IF employeeName \in recursionStack
  THEN [st EXCEPT !.errors = Append(@, CircularError(Append(path, employeeName)))]
  ELSE LET seen == [st EXCEPT !.visited = @ \cup {employeeName}]
           managerId == hierarchy[employeeName].managerId
       IN IF managerId # "" /\ managerId \in DOMAIN hierarchy
          THEN dfsIgnoringVisited(hierarchy, managerId, Append(path, employeeName),
                                  recursionStack \cup {employeeName}, seen)
          ELSE seen

\* dfs of detectCircularReporting: st holds the visited set and the errors;
\* recursionStack is the set of employees on the current call chain (each
\* call removes its employee when it returns).
RECURSIVE dfs(_, _, _, _, _)
dfs(hierarchy, employeeName, path, recursionStack, st) ==
  IF employeeName \in recursionStack
  THEN [st EXCEPT !.errors = Append(@, CircularError(Append(path, employeeName)))]
  ELSE IF employeeName \in st.visited THEN st
  ELSE LET seen == [st EXCEPT !.visited = @ \cup {employeeName}]
           managerId == hierarchy[employeeName].managerId
       IN IF managerId # "" /\ managerId \in DOMAIN hierarchy
          THEN dfs(hierarchy, managerId, Append(path, employeeName),
                   recursionStack \cup {employeeName}, seen)
          ELSE seen

\* The loop over Object.keys(hierarchy), which are in insertion order.
RECURSIVE DetectFrom(_, _, _)
DetectFrom(hierarchy, keys, st) ==
  IF keys = <<>> THEN st
  ELSE DetectFrom(hierarchy, Tail(keys),
                  IF Head(keys) \in st.visited THEN st
                  ELSE dfs(hierarchy, Head(keys), <<>>, {}, st))

detectCircularReporting(hierarchy, keys, errors) ==
  DetectFrom(hierarchy, keys, [visited |-> {}, errors |-> errors]).errors

generateHierarchy(data, nameColumn, managerColumn) ==
  LET first == FirstPass(Tail(data), nameColumn, managerColumn, 0,
                         [employees |-> <<>>, errors |-> <<>>])
      employees == first.employees
      hierarchy == BuildHierarchy(employees)
      keys == [k \in 1..Len(employees) |-> employees[k].name]
  IN [employees |-> employees,
      hierarchy |-> hierarchy,
      rootEmployees |-> RootEmployees(employees),
      orphanedEmployees |-> <<>>,
      errors |-> detectCircularReporting(hierarchy, keys,
                   first.errors \o MissingManagerErrors(employees))]

\* validateStructure: the number of consistency issues it finds itself, and
\* isValid = no issue and no error of the structure.
ConsistencyIssues(st) ==
  (IF \E k \in 1..Len(st.employees) : Trim(st.employees[k].name) = "" THEN 1 ELSE 0)
  + Cardinality({<<n, d>> \in (DOMAIN st.hierarchy) \X EmployeeNames(st.employees) :
                 /\ Includes(st.hierarchy[n].directReports, d)
                 /\ d \notin DOMAIN st.hierarchy})
  + Cardinality({n \in DOMAIN st.hierarchy :
                   /\ st.hierarchy[n].managerId # ""
                   /\ \/ st.hierarchy[n].managerId \notin DOMAIN st.hierarchy
                      \/ ~Includes(st.hierarchy[st.hierarchy[n].managerId].directReports, n)})

validateStructure(st) ==
  [isValid |-> ConsistencyIssues(st) = 0 /\ st.errors = <<>>,
   issues |-> ConsistencyIssues(st) + Len(st.errors)]

(***************************************************************************)
(* parseUploadedFile (app router) and bulkCreateEmployees.                 *)
(***************************************************************************)
\* employeesWithIds: ids in row order, every employee in 'default-org',
\* managerId = nameToIdMap.get(manager) || null.
EmployeesWithIds(employees) ==
  LET IdOf(name) ==
        IF name # "" /\ name \in EmployeeNames(employees)
        THEN CHOOSE k \in 1..Len(employees) : employees[k].name = name
        ELSE NullId
  IN [k \in 1..Len(employees) |->
        Employee(k, employees[k].name, "default-org", IdOf(employees[k].manager))]

\* bulkCreateEmployees: every employee is set under its id and the ids new
\* to the organisation's index are appended to it.
bulkCreateEmployees(store, index, created) ==
  LET ids == [k \in 1..Len(created) |-> created[k].id]
  IN [employee |-> [i \in DOMAIN store \cup Range(ids) |->
                      IF i \in Range(ids)
                      THEN created[CHOOSE k \in 1..Len(created) : created[k].id = i]
                      ELSE store[i]],
      orgEmployees |-> IF created = <<>> THEN index
                       ELSE LET existingIds == index["default-org"]
                            IN [index EXCEPT !["default-org"] =
                                  existingIds \o
                                    SelectSeq(ids, LAMBDA i : ~Includes(existingIds, i))]]

\* The manager column argument with null turned into column 0.
ManagerColumnArgumentOrZero(managerColumn) ==
  IF managerColumn = NullColumn THEN 0 ELSE managerColumn

\* columnResult.managerColumn || -1
ManagerColumnArgument(managerColumn) ==
  IF managerColumn = NullColumn \/ managerColumn = 0 THEN NoManagerColumn
  ELSE managerColumn

NoStructure ==
  [employees |-> <<>>, hierarchy |-> <<>>, rootEmployees |-> <<>>,
   orphanedEmployees |-> <<>>, errors |-> <<>>]

NoUpload ==
  [status |-> "none", columns |-> identifyColumns(<<>>), structure |-> NoStructure,
   employees |-> <<>>, validation |-> validateStructure(NoStructure)]

EmptyGrid == <<>>

NoCall == [nameColumn |-> NullColumn, managerColumn |-> NullColumn]

NotIdentified == [status |-> "none", result |-> identifyColumns(<<>>)]

\* The mutation on the grid parseFile produced (a grid without rows is
\* rejected as 'No data found in file').
ParseUploadedFile ==
  /\ upload.status = "none"
  /\ grid # EmptyGrid
  /\ LET columns == identifyColumns(grid)
     IN IF columns.nameColumn = NullColumn
        THEN /\ upload' = [NoUpload EXCEPT !.status = "error", !.columns = columns]
             /\ UNCHANGED <<employee, orgEmployees>>
        ELSE LET hierarchy == generateHierarchy(grid, columns.nameColumn,
                                ManagerColumnArgument(columns.managerColumn))
                 employeesWithIds == EmployeesWithIds(hierarchy.employees)
                 stored == bulkCreateEmployees(employee, orgEmployees, employeesWithIds)
             IN /\ employee' = stored.employee
                /\ orgEmployees' = stored.orgEmployees
                /\ upload' = [status |-> "success", columns |-> columns,
                              structure |-> hierarchy,
                              employees |-> employeesWithIds,
                              validation |-> validateStructure(hierarchy)]
  /\ UNCHANGED <<organization, req, grid, structure, call, identified, view, page>>

\* generateHierarchy called on the grid with the columns given by the caller.
GenerateHierarchy ==
  /\ structure = NoStructure
  /\ grid # EmptyGrid
  /\ \E columns \in {<<0, 1>>, <<1, 0>>, <<0, NoManagerColumn>>} :
       /\ structure' = generateHierarchy(grid, columns[1], columns[2])
       /\ call' = [nameColumn |-> columns[1], managerColumn |-> columns[2]]
  /\ UNCHANGED <<employee, orgEmployees, organization, req, grid, upload, identified,
                 view, page>>

\* identifyColumns called on the grid.
IdentifyColumns ==
  /\ identified = NotIdentified
  /\ identified' = [status |-> "returned", result |-> identifyColumns(grid)]
  /\ UNCHANGED <<employee, orgEmployees, organization, req, grid, structure, upload, call,
                 view, page>>

(***************************************************************************)
(* The chart viewer: buildTree and calculatePositions.                     *)
(***************************************************************************)
nodeWidth == 200

nodeHeight == 80

levelHeight == 120

siblingSpacing == 40

\* Children wrap to a new row after this many.
maxChildrenPerRow == 5

\* positionNodes(nodes, 0, 50).
StartX == 0

StartY == 50

\* The largest employees prop the viewer is given.
MaxNodes == 25

\* The most nodes collapsed at a time.
MaxCollapsed == 1

\* The employees prop of the viewer: id and managerId (NullId: no manager).
ViewEmployee(id, managerId) == [id |-> id, managerId |-> managerId]

RECURSIVE Sum(_)
Sum(s) == IF s = <<>> THEN 0 ELSE Head(s) + Sum(Tail(s))

\* Math.max(...s) of a non-empty array.
MaxOf(s) == CHOOSE x \in Range(s) : \A y \in Range(s) : y <= x

Max(a, b) == IF a >= b THEN a ELSE b

Min(a, b) == IF a <= b THEN a ELSE b

\* childrenMap.get(id): the employees whose managerId is id, in array order.
ChildrenOf(employees, id) == SelectSeq(employees, LAMBDA emp : emp.managerId = id)

\* buildNode: a collapsed node keeps no children.
RECURSIVE buildNode(_, _, _, _)
buildNode(employees, collapsedNodes, id, level) ==
  LET children == ChildrenOf(employees, id)
      isCollapsed == id \in collapsedNodes
  IN [id |-> id, level |-> level, x |-> 0, y |-> 0, isCollapsed |-> isCollapsed,
      children |-> IF isCollapsed
                   THEN <<>>
                   ELSE [k \in 1..Len(children) |->
                           buildNode(employees, collapsedNodes, children[k].id, level + 1)]]

\* The roots are the employees without a manager.
buildTree(employees, collapsedNodes) ==
  LET rootEmployees == SelectSeq(employees, LAMBDA emp : emp.managerId = NullId)
  IN [k \in 1..Len(rootEmployees) |->
        buildNode(employees, collapsedNodes, rootEmployees[k].id, 0)]

\* One row when the children fit, else slices of maxChildrenPerRow.
splitIntoRows(children) ==
  IF Len(children) <= maxChildrenPerRow
  THEN <<children>>
  ELSE [r \in 1..((Len(children) + maxChildrenPerRow - 1) \div maxChildrenPerRow) |->
          SubSeq(children, (r - 1) * maxChildrenPerRow + 1,
                 Min(r * maxChildrenPerRow, Len(children)))]

RECURSIVE calculateSubtreeWidth(_)
calculateSubtreeWidth(node) ==
  IF Len(node.children) = 0
  THEN nodeWidth
  ELSE LET rows == splitIntoRows(node.children)
           rowWidths == [r \in 1..Len(rows) |->
                           Sum([k \in 1..Len(rows[r]) |-> calculateSubtreeWidth(rows[r][k])])
                           + (Len(rows[r]) - 1) * siblingSpacing]
       IN Max(nodeWidth, MaxOf(rowWidths))

\* 1 for the node, numRows - 1 for the wrapped rows, and the tallest child.
RECURSIVE calculateSubtreeHeight(_)
calculateSubtreeHeight(node) ==
  IF Len(node.children) = 0
  THEN 1
  ELSE LET numRows == Len(splitIntoRows(node.children))
           maxChildHeight == MaxOf([k \in 1..Len(node.children) |->
                                      calculateSubtreeHeight(node.children[k])])
       IN 1 + (numRows - 1) + maxChildHeight

\* The rows above rowIndex (counted from 1 here, from 0 in the source), each
\* as tall as its tallest subtree.
calculateRowYOffset(rows, rowIndex) ==
  Sum([i \in 1..(rowIndex - 1) |->
         MaxOf([k \in 1..Len(rows[i]) |-> calculateSubtreeHeight(rows[i][k])]) * levelHeight])

\* nodeYOffsets.get(id) || 0, the map kept as its entries <<id, offset>>.
MapGetOr(map, key, default) ==
  IF \E entry \in map : entry[1] = key
  THEN (CHOOSE entry \in map : entry[1] = key)[2]
  ELSE default

\* The row (from 1) of the k-th child.
RowOfChild(k) == (k - 1) \div maxChildrenPerRow + 1

\* First pass: the entries nodeYOffsets.set leaves for the nodes and, row by
\* row, for everything below them; a node is set twice, to the same offset.
RECURSIVE calculateYOffsets(_, _)
calculateYOffsets(nodes, parentYOffset) ==
  UNION {LET node == nodes[n]
             rows == splitIntoRows(node.children)
             childYOffset(k) == parentYOffset + calculateRowYOffset(rows, RowOfChild(k))
         IN {<<node.id, parentYOffset>>}
            \cup UNION {{<<node.children[k].id, childYOffset(k)>>}
                        \cup calculateYOffsets(<<node.children[k]>>, childYOffset(k)) :
                        k \in 1..Len(node.children)} :
         n \in 1..Len(nodes)}

\* positionNode that centres every child under the parent, whatever its row.
RECURSIVE positionNodeStacked(_, _, _, _)
positionNodeStacked(node, nodeX, startY, nodeYOffsets) ==
  [node EXCEPT
     !.x = nodeX,
     !.y = startY + node.level * levelHeight + MapGetOr(nodeYOffsets, node.id, 0),
     !.children = [k \in 1..Len(node.children) |->
                     positionNodeStacked(node.children[k], nodeX, startY, nodeYOffsets)]]

\* Second pass: a node at nodeX, each row of its children centred under it.
RECURSIVE positionNode(_, _, _, _)
positionNode(node, nodeX, startY, nodeYOffsets) ==
  LET yOffset == MapGetOr(nodeYOffsets, node.id, 0)
      nodeY == startY + node.level * levelHeight + yOffset
      rows == splitIntoRows(node.children)
      parentCenterX == nodeX + nodeWidth \div 2
      width == [k \in 1..Len(node.children) |-> calculateSubtreeWidth(node.children[k])]
      rowSubtreeWidth(r) ==
        Sum([k \in 1..Len(rows[r]) |-> calculateSubtreeWidth(rows[r][k])])
        + (Len(rows[r]) - 1) * siblingSpacing
      first(k) == (RowOfChild(k) - 1) * maxChildrenPerRow + 1
      childX(k) ==
        parentCenterX - rowSubtreeWidth(RowOfChild(k)) \div 2
        + Sum([j \in 1..(k - first(k)) |-> width[first(k) + j - 1] + siblingSpacing])
      childNodeX(k) == childX(k) + width[k] \div 2 - nodeWidth \div 2
  IN [node EXCEPT
        !.x = nodeX,
        !.y = nodeY,
        !.children = [k \in 1..Len(node.children) |->
                        positionNode(node.children[k], childNodeX(k), startY, nodeYOffsets)]]

\* The roots from left to right, each centred over its own subtree width.
positionNodes(nodes, startX, startY, nodeYOffsets) ==
  LET width == [k \in 1..Len(nodes) |-> calculateSubtreeWidth(nodes[k])]
      currentX(k) == startX + Sum([j \in 1..(k - 1) |-> width[j] + siblingSpacing])
  IN [k \in 1..Len(nodes) |->
        positionNode(nodes[k], currentX(k) + width[k] \div 2 - nodeWidth \div 2,
                     startY, nodeYOffsets)]

calculatePositions(nodes) ==
  positionNodes(nodes, StartX, StartY, calculateYOffsets(nodes, 0))

\* The nodes of a forest, parents before children.
RECURSIVE getAllNodes(_)
getAllNodes(nodes) ==
  IF nodes = <<>>
  THEN <<>>
  ELSE <<Head(nodes)>> \o getAllNodes(Head(nodes).children) \o getAllNodes(Tail(nodes))

(***************************************************************************)
(* The chart viewer: focus filter, precheck of a drop, and its handlers.   *)
(***************************************************************************)
\* employeeMap.get(id)?.managerId: undefined (here NullId) for an absent id.
ManagerIdOf(employees, id) ==
  IF \E i \in 1..Len(employees) : employees[i].id = id
  THEN LET last == CHOOSE i \in 1..Len(employees) :
                     /\ employees[i].id = id
                     /\ \A j \in 1..Len(employees) : employees[j].id = id => j <= i
       IN employees[last].managerId
  ELSE NullId

\* childrenMapCached.get(employeeId): the ids of the direct reports.
getDirectReports(employees, employeeId) ==
  {employees[i].id : i \in {j \in 1..Len(employees) : employees[j].managerId = employeeId}}

\* The focus filter once getAncestors returned `ancestors`.
filteredEmployees(employees, focusedEmployeeId, ancestors) ==
  IF focusedEmployeeId = NullId
  THEN employees
  ELSE SelectSeq(employees,
                 LAMBDA emp : emp.id \in ({focusedEmployeeId} \cup ancestors
                                          \cup getDirectReports(employees, focusedEmployeeId)))

\* The walk of wouldCreateCircularReference from currentId upward.
RECURSIVE WalkToEmployee(_, _, _, _)
WalkToEmployee(employees, employeeId, currentId, visited) ==
  IF currentId = NullId \/ currentId \in visited
  THEN FALSE
  ELSE IF ~ \E i \in 1..Len(employees) : employees[i].id = currentId
  THEN FALSE
  ELSE LET first == CHOOSE i \in 1..Len(employees) :
                      /\ employees[i].id = currentId
                      /\ \A j \in 1..Len(employees) : employees[j].id = currentId => i <= j
       IN IF employees[first].managerId = employeeId
          THEN TRUE
          ELSE WalkToEmployee(employees, employeeId, employees[first].managerId,
                              visited \cup {currentId})

\* The precheck that looks at the new manager's own manager only.
wouldCreateCircularReferenceOneHop(employees, employeeId, newManagerId) ==
  \/ employeeId = newManagerId
  \/ ManagerIdOf(employees, newManagerId) = employeeId

wouldCreateCircularReference(employees, employeeId, newManagerId) ==
  \/ employeeId = newManagerId
  \/ WalkToEmployee(employees, employeeId, newManagerId, {})

\* handleEmployeeDrop of a viewer with props employees and isSaving: what it
\* does with the dragged employee and the target.
handleEmployeeDrop(employees, isSaving, draggedEmployeeId, targetEmployeeId) ==
  IF isSaving THEN "ignored"
  ELSE IF draggedEmployeeId = NullId \/ draggedEmployeeId = targetEmployeeId THEN "ignored"
  ELSE IF wouldCreateCircularReference(employees, draggedEmployeeId, targetEmployeeId)
  THEN "onCircularReferenceError"
  ELSE "onManagerChange"

NoFocus == [focusedEmployeeId |-> NullId, pc |-> "rendered", currentId |-> NullId,
            ancestors |-> {}]

NoDrop == [employeeId |-> NullId, targetId |-> NullId, isSaving |-> FALSE,
           called |-> "none"]

NoView == [employees |-> <<>>, collapsedNodes |-> {}, focus |-> NoFocus,
           positionedTree |-> <<>>, drop |-> NoDrop]

\* treeData and positionedTree of a render.
Rendered(v) ==
  [v EXCEPT !.positionedTree =
     calculatePositions(
       buildTree(filteredEmployees(v.employees, v.focus.focusedEmployeeId, v.focus.ancestors),
                 v.collapsedNodes))]

\* The viewer as first rendered with the employees prop.
Mounted(employees) == Rendered([NoView EXCEPT !.employees = employees])

\* The collapse button of a rendered node that has children.
ToggleCollapse(nodeId) ==
  /\ view.focus.pc = "rendered"
  /\ \E k \in 1..Len(getAllNodes(view.positionedTree)) :
       getAllNodes(view.positionedTree)[k].id = nodeId
  /\ getDirectReports(view.employees, nodeId) # {}
  /\ nodeId \in view.collapsedNodes \/ Cardinality(view.collapsedNodes) < MaxCollapsed
  /\ view' = Rendered([view EXCEPT !.collapsedNodes =
                         IF nodeId \in @ THEN @ \ {nodeId} ELSE @ \cup {nodeId}])
  /\ UNCHANGED <<employee, orgEmployees, organization, req, grid, structure, upload, call,
                 identified, page>>

\* A search result is clicked: the employee is focused, every node is
\* expanded, and the render that follows enters getAncestors.
SetFocusedEmployee(id) ==
  /\ view.focus.pc = "rendered"
  /\ view' = [view EXCEPT !.collapsedNodes = {},
                          !.focus = [focusedEmployeeId |-> id, pc |-> "getAncestors",
                                     currentId |-> ManagerIdOf(view.employees, id),
                                     ancestors |-> {}]]
  /\ UNCHANGED <<employee, orgEmployees, organization, req, grid, structure, upload, call,
                 identified, page>>

\* One turn of the while loop of getAncestors, or its exit, after which the
\* render goes on with the filtered employees.
GetAncestors ==
  /\ view.focus.pc = "getAncestors"
  /\ IF view.focus.currentId # NullId
     THEN view' = [view EXCEPT
                     !.focus.ancestors = @ \cup {view.focus.currentId},
                     !.focus.currentId = ManagerIdOf(view.employees, view.focus.currentId)]
     ELSE view' = Rendered([view EXCEPT !.focus.pc = "rendered"])
  /\ UNCHANGED <<employee, orgEmployees, organization, req, grid, structure, upload, call,
                 identified, page>>

\* The Clear button of the focus indicator.
ClearFocus ==
  /\ view.focus.pc = "rendered"
  /\ view.focus.focusedEmployeeId # NullId
  /\ view' = Rendered([view EXCEPT !.focus = NoFocus])
  /\ UNCHANGED <<employee, orgEmployees, organization, req, grid, structure, upload, call,
                 identified, page>>

\* A drop on a node of a viewer whose parent passes isSaving and takes the
\* callbacks: which callback is called is kept.
DropOnNode(isSaving, draggedEmployeeId, targetEmployeeId) ==
  /\ view.focus.pc = "rendered"
  /\ view' = [view EXCEPT !.drop =
                [employeeId |-> draggedEmployeeId, targetId |-> targetEmployeeId,
                 isSaving |-> isSaving,
                 called |-> handleEmployeeDrop(view.employees, isSaving,
                                               draggedEmployeeId, targetEmployeeId)]]
  /\ UNCHANGED <<employee, orgEmployees, organization, req, grid, structure, upload, call,
                 identified, page>>

(***************************************************************************)
(* The chart page: the client store (chart-store) and the save flow.       *)
(***************************************************************************)
\* saveError: null.
NoError == ""

\* The session of the page's user.
SessionUser == "user1"

\* The most saves the page starts in one run.
MaxSaves == 2

\* lastFailedOperation: null.
NoOperation == [employeeId |-> NullId, newManagerId |-> NullId]

\* A slot of the page for one call of handleManagerChange that awaits
\* updateManager.mutateAsync, with the locals of the call.
NoSave == [pc |-> "none", employeeId |-> NullId, newManagerId |-> NullId,
           previousManagerId |-> NullId]

\* The store {chartData.employees, isSaving, saveError}, the page state
\* lastFailedOperation, and the calls of handleManagerChange in flight.
\* `started` counts the saves; `failed` and `dismissed` remember the pair of
\* the most recent failed attempt and whether the error was dismissed since.
NoPage ==
  [employees |-> <<>>, isSaving |-> FALSE, saveError |-> NoError,
   lastFailedOperation |-> NoOperation, saves |-> [r \in Requests |-> NoSave],
   started |-> 0, failed |-> NoOperation, dismissed |-> FALSE]

\* setSaving: starting a save clears the error.
setSaving(p, saving) ==
  [p EXCEPT !.isSaving = saving, !.saveError = IF saving THEN NoError ELSE @]

\* setSaveError whose set leaves isSaving alone.
setSaveErrorOnly(p, error) == [p EXCEPT !.saveError = error]

\* setSaveError: set({ saveError: error, isSaving: false })
setSaveError(p, error) == [p EXCEPT !.saveError = error, !.isSaving = FALSE]

\* updateEmployeeManager: the employees mapped, the one with the id changed.
updateEmployeeManager(p, employeeId, newManagerId) ==
  [p EXCEPT !.employees =
     [i \in 1..Len(@) |-> IF @[i].id = employeeId
                          THEN [@[i] EXCEPT !.managerId = newManagerId]
                          ELSE @[i]]]

\* employees.find(emp => emp.id === employeeId)?.managerId || null
PreviousManagerId(employees, employeeId) ==
  IF \E i \in 1..Len(employees) : employees[i].id = employeeId
  THEN LET first == CHOOSE i \in 1..Len(employees) :
                      /\ employees[i].id = employeeId
                      /\ \A j \in 1..Len(employees) : employees[j].id = employeeId => i <= j
       IN employees[first].managerId
  ELSE NullId

\* handleManagerChange up to its await: the optimistic update, setSaving(true),
\* setSaveError(null); slot r keeps the locals.
handleManagerChange(p, r, employeeId, newManagerId) ==
  LET previousManagerId == PreviousManagerId(p.employees, employeeId)
      optimistic == updateEmployeeManager(p, employeeId, newManagerId)
      cleared == setSaveError(setSaving(optimistic, TRUE), NoError)
  IN [cleared EXCEPT
        !.saves[r] = [pc |-> "awaitUpdateManager", employeeId |-> employeeId,
                      newManagerId |-> newManagerId,
                      previousManagerId |-> previousManagerId],
        !.started = @ + 1]

\* The catch block that records the previous manager as the failed target.
handleManagerChangeFailedKeepingPrevious(p, r, errorMessage) ==
  LET s == p.saves[r]
      reverted == updateEmployeeManager(p, s.employeeId, s.previousManagerId)
      recorded == [reverted EXCEPT
                     !.lastFailedOperation = [employeeId |-> s.employeeId,
                                              newManagerId |-> s.previousManagerId]]
  IN [setSaveError(recorded, errorMessage) EXCEPT
        !.saves[r] = NoSave,
        !.failed = [employeeId |-> s.employeeId, newManagerId |-> s.newManagerId],
        !.dismissed = FALSE]

\* handleManagerChange resumed by a rejection: the catch block.
handleManagerChangeFailed(p, r, errorMessage) ==
  LET s == p.saves[r]
      reverted == updateEmployeeManager(p, s.employeeId, s.previousManagerId)
      recorded == [reverted EXCEPT
                     !.lastFailedOperation = [employeeId |-> s.employeeId,
                                              newManagerId |-> s.newManagerId]]
  IN [setSaveError(recorded, errorMessage) EXCEPT
        !.saves[r] = NoSave,
        !.failed = [employeeId |-> s.employeeId, newManagerId |-> s.newManagerId],
        !.dismissed = FALSE]

\* handleManagerChange resumed by the result: success is true in every result
\* updateManager returns.
handleManagerChangeSucceeded(p, r) ==
  [setSaving(p, FALSE) EXCEPT !.saves[r] = NoSave]

\* handleSaveStatusChange(false, null): the error is dismissed.
handleSaveStatusChange(p) ==
  [setSaveError(setSaving(p, FALSE), NoError) EXCEPT
     !.lastFailedOperation = NoOperation, !.dismissed = TRUE]

\* A call of handleManagerChange: the page changes and the request enters
\* the server in slot r.
StartSave(r, employeeId, newManagerId) ==
  /\ page.started < MaxSaves
  /\ req[r].pc = "idle"
  /\ page.saves[r] = NoSave
  /\ page' = handleManagerChange(page, r, employeeId, newManagerId)
  /\ Enter(r, employeeId, newManagerId, SessionUser)
  /\ UNCHANGED <<employee, orgEmployees, organization, grid, structure, upload, call,
                 identified, view>>

\* handleManagerChange(employeeId, newManagerId): nothing without a new
\* manager; else the save starts in a free slot.
HandleManagerChange(employeeId, newManagerId) ==
  IF newManagerId = NullId
  THEN UNCHANGED vars
  ELSE \E r \in Requests : StartSave(r, employeeId, newManagerId)

\* A node is dropped on another in the viewer the page renders with its
\* employees and isSaving: onManagerChange is handleManagerChange.
DropEmployee(draggedEmployeeId, targetEmployeeId) ==
  IF handleEmployeeDrop(page.employees, page.isSaving,
                        draggedEmployeeId, targetEmployeeId) = "onManagerChange"
  THEN HandleManagerChange(draggedEmployeeId, targetEmployeeId)
  ELSE UNCHANGED vars

\* handleRetry: the last failed operation again, if there is one.
HandleRetry ==
  IF page.lastFailedOperation # NoOperation
  THEN HandleManagerChange(page.lastFailedOperation.employeeId,
                           page.lastFailedOperation.newManagerId)
  ELSE UNCHANGED vars

\* The x of the error banner, shown while saveError is set.
DismissError ==
  /\ page.saveError # NoError
  /\ page' = handleSaveStatusChange(page)
  /\ UNCHANGED <<employee, orgEmployees, organization, req, grid, structure, upload, call,
                 identified, view>>

\* The response of updateManager reaches the page: the await of slot r
\* resolves with the result or rejects with the error.
SaveSettled(r) ==
  /\ page.saves[r] # NoSave
  /\ req[r].pc = "done"
  /\ page' = IF req[r].outcome = "success"
             THEN handleManagerChangeSucceeded(page, r)
             ELSE handleManagerChangeFailed(page, r, req[r].outcome)
  /\ req' = [req EXCEPT ![r] = IdleRequest]
  /\ UNCHANGED <<employee, orgEmployees, organization, grid, structure, upload, call,
                 identified, view>>

(***************************************************************************)
(* Initial stores.                                                         *)
(***************************************************************************)
Names == <<"Al", "Bo", "Cy", "Di", "Ed">>

\* Organization records: 'default-org' belongs to user1, 'org2' has none.
InitOrganization ==
  [o \in Orgs |-> IF o = "default-org" THEN [id |-> o, userId |-> "user1"]
                  ELSE NullOrganization]

\* Stores the program can hold: every employee is indexed under its
\* organisation and a manager, when set, is an employee of the same
\* organisation (createEmployee, parseUploadedFile and updateManager all keep
\* this); the manager relation may hold cycles, which an upload can persist.
StoredEmployees ==
  {f \in [EmpIds -> [id : EmpIds, name : Range(Names), organizationId : Orgs,
                     managerId : EmpIds \cup {NullId}]] :
     \A i \in EmpIds :
       /\ f[i].id = i
       /\ f[i].name = Names[i]
       /\ f[i].managerId # NullId =>
            f[f[i].managerId].organizationId = f[i].organizationId}

IndexOf(f) ==
  [o \in Orgs |-> Ascending({i \in DOMAIN f : f[i].organizationId = o})]


\* The employees reached from employee i of store f by following managerId
\* links upward one or more times.
RECURSIVE Up(_, _, _)
Up(f, S, n) ==
  IF n = 0 THEN S
  ELSE Up(f, S \cup ({f[k].managerId : k \in {j \in S : j \in DOMAIN f}} \ {NullId}),
          n - 1)

Managers(f, i) ==
  IF i \in DOMAIN f /\ f[i].managerId # NullId
  THEN Up(f, {f[i].managerId}, Cardinality(DOMAIN f))
  ELSE {}

\* The forest invariant of the data model: no employee is reached from
\* itself (a self-reference is the cycle of length one).
Forest(f) == \A i \in DOMAIN f : i \notin Managers(f, i)

InitEdit ==
  /\ employee \in StoredEmployees
  /\ orgEmployees = IndexOf(employee)
  /\ organization = InitOrganization
  /\ req = [r \in Requests |-> IdleRequest]
  /\ grid = EmptyGrid
  /\ structure = NoStructure
  /\ upload = NoUpload
  /\ call = NoCall
  /\ identified = NotIdentified
  /\ view = NoView
  /\ page = NoPage

Next == \E r \in Requests : UpdateManager(r) \/ Resume(r) \/ Respond(r)

Spec == InitEdit /\ [][Next]_vars

\* Edits of a store that starts as a forest.
InitForest == InitEdit /\ Forest(employee)

SpecForest == InitForest /\ [][Next]_vars

NextConcurrent == \E r \in Requests : UpdateManagerConcurrently(r) \/ Resume(r)

SpecConcurrent == InitForest /\ [][NextConcurrent]_vars

\* Grids: a header row and up to MaxRows data rows of two cells.
HeaderRows ==
  {<<"Name", "Manager">>, <<"Manager", "Name">>, <<"Name", "Dept">>, <<"Dept", "Manager">>}

\* The grid is one of the header rows followed by 0..MaxRows rows over cells.
GridOver(headerRows, cells) ==
  \E headers \in headerRows, n \in 0..MaxRows :
    \E rows \in [1..n -> cells \X cells] :
      grid = <<headers>> \o [k \in 1..n |-> rows[k]]

\* An empty store and nothing parsed yet.
InitStore ==
  /\ employee = <<>>
  /\ orgEmployees = [o \in Orgs |-> <<>>]
  /\ organization = InitOrganization
  /\ req = [r \in Requests |-> IdleRequest]
  /\ structure = NoStructure
  /\ upload = NoUpload
  /\ call = NoCall
  /\ identified = NotIdentified
  /\ view = NoView
  /\ page = NoPage

\* An upload into an empty store.
InitImport ==
  /\ InitStore
  /\ GridOver(HeaderRows, CellValues)

NextImport == ParseUploadedFile

SpecImport == InitImport /\ [][NextImport]_vars

\* Direct calls of generateHierarchy on grids of one-word names under the
\* headers Name, Manager; the caller gives the columns.
InitHierarchy ==
  /\ InitStore
  /\ GridOver({<<"Name", "Manager">>}, CellValues \ {"Al Bo"})

NextHierarchy == GenerateHierarchy

SpecHierarchy == InitHierarchy /\ [][NextHierarchy]_vars

\* Uploads of grids that lack a name header or a manager header.
InitImportFlat ==
  /\ InitStore
  /\ GridOver({<<"Name", "Dept">>, <<"Dept", "Manager">>}, {"", "Al", "Al Bo"})

SpecImportFlat == InitImportFlat /\ [][NextImport]_vars

\* Direct calls of generateHierarchy on grids whose cells repeat a name, with
\* and without surrounding blanks.
InitDuplicates ==
  /\ InitStore
  /\ GridOver({<<"Name", "Manager">>}, {"", "Al", " Al ", "Bo"})

SpecDuplicates == InitDuplicates /\ [][NextHierarchy]_vars

\* Direct calls of identifyColumns on grids of three columns: every header
\* row over the headers below and up to MaxRows - 1 data rows.
ColumnHeaders == {"Name", "Manager", "Title", "Dept"}

InitColumns ==
  /\ InitStore
  /\ \E headers \in ColumnHeaders \X ColumnHeaders \X ColumnHeaders, n \in 0..(MaxRows - 1) :
       \E rows \in [1..n -> {"", "Al", "Al Bo"} \X {"", "Al", "Al Bo"} \X {"", "Al Bo"}] :
         grid = <<headers>> \o [k \in 1..n |-> rows[k]]

NextColumns == IdentifyColumns

SpecColumns == InitColumns /\ [][NextColumns]_vars

\* The fan-outs of the nodes of the forests the viewer lays out: a leaf, and
\* one report more than a row holds.
FanOuts == {0, maxChildrenPerRow + 1}

\* The fan-outs of the nodes in breadth-first order, for every forest of at
\* most MaxNodes nodes: `total` ids are given out so far.
RECURSIVE FanOutsFrom(_, _)
FanOutsFrom(counts, total) ==
  IF Len(counts) = total
  THEN {counts}
  ELSE UNION {FanOutsFrom(Append(counts, k), total + k) :
                k \in {j \in FanOuts : total + j <= MaxNodes}}

\* The employees of the forest with `roots` roots and these fan-outs: the
\* reports of node i take the next counts[i] ids.
EmployeesOf(roots, counts) ==
  LET firstReport(i) == roots + Sum(SubSeq(counts, 1, i - 1)) + 1
      managerId(id) == IF id <= roots
                       THEN NullId
                       ELSE CHOOSE i \in 1..Len(counts) :
                              firstReport(i) <= id /\ id < firstReport(i) + counts[i]
  IN [id \in 1..Len(counts) |-> ViewEmployee(id, managerId(id))]

\* Nothing stored, nothing parsed, no page.
InitNoServer ==
  /\ employee = <<>>
  /\ orgEmployees = [o \in Orgs |-> <<>>]
  /\ organization = InitOrganization
  /\ req = [r \in Requests |-> IdleRequest]
  /\ grid = EmptyGrid
  /\ structure = NoStructure
  /\ upload = NoUpload
  /\ call = NoCall
  /\ identified = NotIdentified
  /\ page = NoPage

\* A viewer mounted with a forest of one or two roots.
InitLayout ==
  /\ InitNoServer
  /\ \E roots \in 1..2 :
       \E counts \in FanOutsFrom(<<>>, roots) : view = Mounted(EmployeesOf(roots, counts))

NextLayout == \E nodeId \in 1..MaxNodes : ToggleCollapse(nodeId)

SpecLayout == InitLayout /\ [][NextLayout]_vars

\* A viewer mounted with NEmp employees whose managerId is any id or none:
\* the set may hold cycles and self-managers.
InitViewer ==
  /\ InitNoServer
  /\ \E managerId \in [EmpIds -> EmpIds \cup {NullId}] :
       view = Mounted([id \in EmpIds |-> ViewEmployee(id, managerId[id])])

NextViewer ==
  \/ \E id \in EmpIds : SetFocusedEmployee(id)
  \/ GetAncestors
  \/ ClearFocus
  \/ \E isSaving \in BOOLEAN, e \in EmpIds, m \in EmpIds : DropOnNode(isSaving, e, m)

SpecViewer == InitViewer /\ [][NextViewer]_vars

\* getAncestors runs to its end unless its loop never ends: the steps of the
\* render are taken as long as there is one to take.
SpecFocus == SpecViewer /\ WF_vars(GetAncestors)

\* A page whose store holds what the server holds: a forest of one
\* organisation.
InitPage ==
  /\ employee \in {f \in StoredEmployees :
                     Forest(f) /\ \A i \in EmpIds : f[i].organizationId = "default-org"}
  /\ orgEmployees = IndexOf(employee)
  /\ organization = InitOrganization
  /\ req = [r \in Requests |-> IdleRequest]
  /\ grid = EmptyGrid
  /\ structure = NoStructure
  /\ upload = NoUpload
  /\ call = NoCall
  /\ identified = NotIdentified
  /\ view = NoView
  /\ page = [NoPage EXCEPT !.employees = [i \in EmpIds |-> employee[i]]]

NextPage ==
  \/ \E e \in EmpIds, m \in EmpIds : DropEmployee(e, m)
  \/ HandleRetry
  \/ DismissError
  \/ \E r \in Requests : Resume(r) \/ SaveSettled(r)

SpecPage == InitPage /\ [][NextPage]_vars


(***************************************************************************)
(* Properties of the edit path.                                            *)
(***************************************************************************)
\* validateHierarchyUpdate has returned for request r.
Validated(r) == req[r].validation # NoValidation

\* A data-loading call of validateHierarchyUpdate threw for request r.
LoadFaulted(r) ==
  \/ req[r].employee.fault
  \/ req[r].newManager.fault
  \/ req[r].organization.fault
  \/ req[r].loaded.fault

\* The store is still the one request r was validated against: r has not
\* written yet.
NotWritten(r) ==
  \/ req[r].pc = "awaitCurrentEmployee"
  \/ req[r].pc = "done" /\ req[r].outcome \in {"BAD_REQUEST", "FORBIDDEN"}

Exists(id) == getEmployee(id) # NullEmployee

Owned(org, userId) ==
  /\ getOrganization(org) # NullOrganization
  /\ getOrganization(org).userId = userId

\* C1: starting from an acyclic store, after any sequence of updateManager
\* requests handled one at a time the persisted manager relation has no
\* cycle and no employee is its own manager.
C1_EditsKeepForest ==
  /\ Forest(employee)
  /\ \A i \in DOMAIN employee : employee[i].managerId # i

\* A reparent was committed by a request handled alone.
C1_Witness ==
  \E r \in Requests :
    /\ req[r].outcome = "success"
    /\ req[r].previousManagerId # req[r].newManagerId
    /\ employee[req[r].employeeId].managerId = req[r].newManagerId

\* C2: two updateManager requests in flight at once never leave a cycle in
\* the persisted set (their validations and commits do not interleave so that
\* both pass and both commit).
C2_ConcurrentEditsKeepForest == Forest(employee)

\* Both requests were validated before either wrote, and both committed.
C2_Witness ==
  /\ \A r \in Requests : req[r].outcome = "success"
  /\ ~Forest(employee)

\* C4: when steps 1 to 5 pass and the organisation's employees were loaded,
\* the result is CIRCULAR_RELATIONSHIP exactly when employeeId is reached by
\* following managerId links upward from newManagerId, and valid otherwise
\* (on stores with and without cycles).
C4_CircularExactlyWhenSubordinate ==
  \A r \in Requests :
    LET c == req[r]
    IN ( /\ Validated(r) /\ NotWritten(r) /\ ~LoadFaulted(r)
         /\ Exists(c.employeeId) /\ Exists(c.newManagerId)
         /\ employee[c.employeeId].organizationId
              = employee[c.newManagerId].organizationId
         /\ Owned(employee[c.employeeId].organizationId, c.userId)
         /\ c.employeeId # c.newManagerId )
       => IF c.employeeId \in Managers(employee, c.newManagerId)
          THEN c.validation = Invalid("CIRCULAR_RELATIONSHIP")
          ELSE c.validation = Valid

\* A move under an indirect subordinate was rejected on a store that
\* already holds a cycle elsewhere.
C4_Witness ==
  \E r \in Requests :
    /\ req[r].validation = Invalid("CIRCULAR_RELATIONSHIP")
    /\ ~req[r].loaded.fault
    /\ getEmployee(req[r].newManagerId).managerId # req[r].employeeId
    /\ ~Forest(employee)

\* C5 as claimed: employeeId = newManagerId gives SELF_MANAGEMENT in every
\* data state.
C5_SelfManagementAlways ==
  \A r \in Requests :
    (Validated(r) /\ ~LoadFaulted(r) /\ req[r].employeeId = req[r].newManagerId)
      => req[r].validation = Invalid("SELF_MANAGEMENT")

\* C5 amended: employeeId = newManagerId gives SELF_MANAGEMENT when the
\* employee exists and its organisation exists and belongs to the acting
\* user; EMPLOYEE_NOT_FOUND when the employee does not exist and
\* UNAUTHORIZED_ACCESS when the organisation is missing or not owned.
C5_SelfManagementAfterEarlierChecks ==
  \A r \in Requests :
    LET c == req[r]
    IN (Validated(r) /\ ~LoadFaulted(r) /\ c.employeeId = c.newManagerId)
       => c.validation =
            IF ~Exists(c.employeeId) THEN Invalid("EMPLOYEE_NOT_FOUND")
            ELSE IF ~Owned(employee[c.employeeId].organizationId, c.userId)
            THEN Invalid("UNAUTHORIZED_ACCESS")
            ELSE Invalid("SELF_MANAGEMENT")

C5_Witness ==
  \E r \in Requests :
    /\ req[r].employeeId = req[r].newManagerId
    /\ req[r].validation = Invalid("SELF_MANAGEMENT")

\* The result claim C6 gives for a request on the current store: the code of
\* the first failing check in the order 1 to 6.
FirstFailingCheck(e, m, u) ==
  IF ~Exists(e) THEN Invalid("EMPLOYEE_NOT_FOUND")
  ELSE IF ~Exists(m) THEN Invalid("MANAGER_NOT_FOUND")
  ELSE IF employee[e].organizationId # employee[m].organizationId
  THEN Invalid("DIFFERENT_ORGANIZATIONS")
  ELSE IF ~Owned(employee[e].organizationId, u) THEN Invalid("UNAUTHORIZED_ACCESS")
  ELSE IF e = m THEN Invalid("SELF_MANAGEMENT")
  ELSE IF e \in Managers(employee, m) THEN Invalid("CIRCULAR_RELATIONSHIP")
  ELSE Valid

\* C6: the checks are evaluated in the order employee exists, manager
\* exists, same organisation, organisation owned, ids differ, no circular
\* relationship; the code of the first failing check is returned and the
\* result is valid only when every check passes.
C6_FirstFailingCheckWins ==
  \A r \in Requests :
    (Validated(r) /\ NotWritten(r) /\ ~LoadFaulted(r))
      => req[r].validation
           = FirstFailingCheck(req[r].employeeId, req[r].newManagerId, req[r].userId)

\* Two checks fail at once and the earlier one is reported: the manager is
\* in another organisation and the acting user owns neither.
C6_Witness ==
  \E r \in Requests :
    /\ req[r].validation = Invalid("DIFFERENT_ORGANIZATIONS")
    /\ ~Owned(employee[req[r].employeeId].organizationId, req[r].userId)

\* C7 as claimed: a fault of any data-loading call of steps 1 to 5 gives
\* CIRCULAR_RELATIONSHIP.
C7_EveryFaultIsCircular ==
  \A r \in Requests :
    (Validated(r) /\ LoadFaulted(r))
      => req[r].validation = Invalid("CIRCULAR_RELATIONSHIP")

\* C7 amended: a fault of getEmployee (for the employee or the new manager)
\* or of getOrganization gives INTERNAL_ERROR; a fault of
\* getEmployeesByOrganization gives CIRCULAR_RELATIONSHIP.
C7_FaultCodes ==
  \A r \in Requests :
    Validated(r) =>
      /\ (req[r].employee.fault \/ req[r].newManager.fault \/ req[r].organization.fault)
           => req[r].validation = Invalid("INTERNAL_ERROR")
      /\ req[r].loaded.fault => req[r].validation = Invalid("CIRCULAR_RELATIONSHIP")

\* The load of the organisation's employees threw part-way and the request
\* was rejected as circular.
C7_Witness ==
  \E r \in Requests :
    /\ req[r].loaded.fault
    /\ req[r].employees # <<>>
    /\ req[r].validation = Invalid("CIRCULAR_RELATIONSHIP")

ErrorCodes ==
  {"EMPLOYEE_NOT_FOUND", "MANAGER_NOT_FOUND", "DIFFERENT_ORGANIZATIONS",
   "UNAUTHORIZED_ACCESS", "SELF_MANAGEMENT", "CIRCULAR_RELATIONSHIP", "INTERNAL_ERROR"}

\* C8: validateHierarchyUpdate never throws: every request that reached it
\* ends with a structured result (an error code whenever it is not valid),
\* updateManager's own INTERNAL_SERVER_ERROR arises only after a valid
\* result, and no request during which a load faulted is valid.
C8_StructuredResultFailClosed ==
  \A r \in Requests :
    LET c == req[r]
    IN /\ (c.pc = "done" /\ c.userId # NoUser) => Validated(r)
       /\ c.outcome \in {"INTERNAL_SERVER_ERROR", "NOT_FOUND", "success"}
            => c.validation = Valid
       /\ Validated(r) =>
            /\ (~c.validation.isValid => c.validation.errorCode \in ErrorCodes)
            /\ (LoadFaulted(r) => ~c.validation.isValid)

\* The last load of the validator threw although the new manager is no
\* subordinate, and the request was rejected.
C8_Witness ==
  \E r \in Requests :
    /\ req[r].pc = "done"
    /\ req[r].loaded.fault
    /\ ~req[r].validation.isValid
    /\ req[r].employeeId \notin Managers(employee, req[r].newManagerId)

StoreChanged ==
  \/ employee' # employee
  \/ orgEmployees' # orgEmployees
  \/ organization' # organization

\* C9: updateManager changes the store only for a request with a session
\* user whose validation was valid, and then only the managerId of the
\* employee named in the request, which becomes newManagerId.
C9_OnlyValidatedManagerChange ==
  [][StoreChanged =>
       \E r \in Requests :
         /\ req[r].pc = "awaitCurrentEmployee"
         /\ req[r].userId # NoUser
         /\ req[r].validation = Valid
         /\ req[r].employeeId \in DOMAIN employee
         /\ employee' = [employee EXCEPT
                           ![req[r].employeeId].managerId = req[r].newManagerId]
         /\ UNCHANGED <<orgEmployees, organization>>]_vars

\* A validated request has written the new manager.
C9_Witness ==
  \E r \in Requests :
    /\ req[r].pc = "awaitUpdateEmployee"
    /\ ~req[r].updated.fault
    /\ req[r].currentEmployee.value.managerId # req[r].newManagerId
    /\ employee[req[r].employeeId].managerId = req[r].newManagerId

(***************************************************************************)
(* Properties of the import path.                                          *)
(***************************************************************************)
\* C3: after parseUploadedFile completes, the employees it persisted form a
\* forest: following managerId links upward from a persisted employee never
\* returns to it, and no employee has its own id as managerId.
C3_UploadPersistsForest ==
  upload.status = "success" =>
    /\ Forest(employee)
    /\ \A i \in DOMAIN employee : employee[i].managerId # i

\* An upload persisted employees with resolved manager links.
C3_Witness ==
  /\ upload.status = "success"
  /\ Len(upload.employees) >= 2
  /\ \E i \in DOMAIN employee : employee[i].managerId # NullId

\* The names reached from a name by following manager names upward one or
\* more times among the employees of a structure.
RECURSIVE UpNames(_, _, _)
UpNames(employees, S, n) ==
  IF n = 0 THEN S
  ELSE UpNames(employees,
               S \cup {employees[k].manager :
                         k \in {j \in 1..Len(employees) :
                                  /\ employees[j].name \in S
                                  /\ employees[j].manager \in EmployeeNames(employees)}},
               n - 1)

NameForest(employees) ==
  \A k \in 1..Len(employees) :
    employees[k].manager \in EmployeeNames(employees) =>
      employees[k].name \notin UpNames(employees, {employees[k].manager}, Len(employees))

CircularErrors(st) == SelectSeq(st.errors, LAMBDA e : e.kind = "Circular reporting detected")

\* C10: when the manager relation of the generated hierarchy is a forest,
\* generateHierarchy reports no 'Circular reporting detected' error, whatever
\* the order of the rows.
C10_NoFalseCycles ==
  (structure # NoStructure /\ NameForest(structure.employees)) =>
    CircularErrors(structure) = <<>>

\* A forest in which two employees share a manager whose row comes after
\* theirs: the manager is met a second time after it left the recursion stack.
C10_Witness ==
  /\ structure # NoStructure
  /\ NameForest(structure.employees)
  /\ CircularErrors(structure) = <<>>
  /\ \E a, b, c \in 1..Len(structure.employees) :
       /\ a < b /\ b < c
       /\ structure.employees[a].manager = structure.employees[c].name
       /\ structure.employees[b].manager = structure.employees[c].name

\* The manager named by employee n of a structure's employees.
ManagerOf(employees, n) ==
  employees[CHOOSE k \in 1..Len(employees) : employees[k].name = n].manager

\* The names reached upward from n, and the employees lying on a cycle.
Above(employees, n) ==
  IF ManagerOf(employees, n) \in EmployeeNames(employees)
  THEN UpNames(employees, {ManagerOf(employees, n)}, Len(employees))
  ELSE {}

OnCycle(employees, n) == n \in Above(employees, n)

\* The cycles of the manager-name relation, each as the set of its employees.
Cycles(employees) ==
  {Above(employees, n) : n \in {m \in EmployeeNames(employees) : OnCycle(employees, m)}}

\* C11: every cycle of the manager-name relation of a generated hierarchy
\* gives exactly one 'Circular reporting detected' error, and that error
\* mentions every employee of the cycle, whatever the order of the rows.
C11_OneErrorPerCycle ==
  structure # NoStructure =>
    LET errs == CircularErrors(structure)
        cycles == Cycles(structure.employees)
    IN /\ Len(errs) = Cardinality(cycles)
       /\ \A c \in cycles :
            Cardinality({k \in 1..Len(errs) : c \subseteq Range(errs[k].path)}) = 1

\* Mutual managers were reported once although an employee outside the
\* cycle reports into it.
C11_Witness ==
  /\ structure # NoStructure
  /\ Len(CircularErrors(structure)) = 1
  /\ \E c \in Cycles(structure.employees) :
       /\ Cardinality(c) = 2
       /\ \E k \in 1..Len(structure.employees) :
            /\ structure.employees[k].name \notin c
            /\ structure.employees[k].manager \in c

\* C12: the path of every 'Circular reporting detected' error starts and ends
\* with the same employee and names only employees of the cycle, also when
\* other employees report into the cycle.
C12_PathIsTheCycle ==
  structure # NoStructure =>
    \A k \in 1..Len(CircularErrors(structure)) :
      LET path == CircularErrors(structure)[k].path
      IN /\ path[1] = path[Len(path)]
         /\ \A i \in 1..Len(path) : OnCycle(structure.employees, path[i])

\* A cycle was reported for a grid in which an employee outside the cycle
\* reports into it.
C12_Witness ==
  /\ structure # NoStructure
  /\ CircularErrors(structure) # <<>>
  /\ \E k \in 1..Len(structure.employees) :
       /\ ~OnCycle(structure.employees, structure.employees[k].name)
       /\ structure.employees[k].manager \in EmployeeNames(structure.employees)
       /\ OnCycle(structure.employees, structure.employees[k].manager)

\* The trimmed name and manager of data row i (1-based) of the grid under the
\* columns of the call, and the rows that are the first of their name.
RowName(i) == Cell(grid[i + 1], call.nameColumn)

RowManager(i) == Cell(grid[i + 1], call.managerColumn)

DataRows == 1..(Len(grid) - 1)

FirstOfName(i) == RowName(i) # "" /\ \A j \in 1..(i - 1) : RowName(j) # RowName(i)

RepeatsName(i) == RowName(i) # "" /\ \E j \in 1..(i - 1) : RowName(j) = RowName(i)

\* The manager given by the first row of a name.
FirstManager(n) == RowManager(CHOOSE i \in DataRows : FirstOfName(i) /\ RowName(i) = n)

Occurrences(seq, x) == Cardinality({k \in 1..Len(seq) : seq[k] = x})

\* C13: generateHierarchy keeps only the first row of each trimmed name: the
\* employees have pairwise distinct names, every later row repeating a name
\* gives exactly one 'Row N: Duplicate employee name' error with N its
\* position in the grid (the header being row 1), and such a row adds
\* nothing to hierarchy, to a directReports list or to rootEmployees.
C13_FirstRowOfEachNameKept ==
  structure # NoStructure =>
    LET names == {RowName(i) : i \in {j \in DataRows : FirstOfName(j)}}
    IN /\ \A k, l \in 1..Len(structure.employees) :
            structure.employees[k].name = structure.employees[l].name => k = l
       /\ EmployeeNames(structure.employees) = names
       /\ \A k \in 1..Len(structure.employees) :
            structure.employees[k].manager = FirstManager(structure.employees[k].name)
       /\ \A i \in DataRows :
            Occurrences(structure.errors, DuplicateNameError(i + 1, RowName(i)))
              = IF RepeatsName(i) THEN 1 ELSE 0
       /\ Len(SelectSeq(structure.errors, LAMBDA e : e.kind = "Duplicate employee name"))
            = Cardinality({i \in DataRows : RepeatsName(i)})
       /\ DOMAIN structure.hierarchy = names
       /\ \A n \in names :
            /\ structure.hierarchy[n].managerId = FirstManager(n)
            /\ \A d \in names :
                 Occurrences(structure.hierarchy[n].directReports, d)
                   = IF FirstManager(d) = n THEN 1 ELSE 0
            /\ Range(structure.hierarchy[n].directReports) \subseteq names
            /\ Occurrences(structure.rootEmployees, n)
                 = IF FirstManager(n) = "" \/ FirstManager(n) \notin names THEN 1 ELSE 0

\* A row repeated an earlier name written with other blanks, and named as
\* its manager an employee the first row did not name.
C13_Witness ==
  /\ structure # NoStructure
  /\ \E i \in DataRows :
       /\ RepeatsName(i)
       /\ \E j \in 1..(i - 1) :
            /\ RowName(j) = RowName(i)
            /\ grid[j + 1][call.nameColumn + 1] # grid[i + 1][call.nameColumn + 1]
       /\ RowManager(i) \in EmployeeNames(structure.employees)
       /\ RowManager(i) # FirstManager(RowName(i))

\* C14: rootEmployees is exactly the parsed employees that declare no manager
\* or a manager that is no parsed employee; each employee of the second kind
\* adds exactly one error naming the missing manager; orphanedEmployees is
\* empty.
C14_RootsAndMissingManagers ==
  structure # NoStructure =>
    LET employees == structure.employees
        names == EmployeeNames(employees)
        missing == {k \in 1..Len(employees) :
                      employees[k].manager # "" /\ employees[k].manager \notin names}
    IN /\ Range(structure.rootEmployees)
            = {employees[k].name :
                 k \in {l \in 1..Len(employees) : employees[l].manager = ""} \cup missing}
       /\ \A n \in names : Occurrences(structure.rootEmployees, n) <= 1
       /\ \A k \in 1..Len(employees) :
            Cardinality({e \in 1..Len(structure.errors) :
                           /\ structure.errors[e].kind = "manager not in the employee list"
                           /\ structure.errors[e].name = employees[k].name})
              = IF k \in missing THEN 1 ELSE 0
       /\ \A e \in 1..Len(structure.errors) :
            structure.errors[e].kind = "manager not in the employee list" =>
              \E k \in missing : /\ structure.errors[e].name = employees[k].name
                                 /\ structure.errors[e].manager = employees[k].manager
       /\ structure.orphanedEmployees = <<>>

\* A root whose manager is no employee, with its error, and an employee
\* that is no root.
C14_Witness ==
  /\ structure # NoStructure
  /\ \E b, c \in 1..Len(structure.employees) :
       /\ structure.employees[b].manager # ""
       /\ structure.employees[b].manager \notin EmployeeNames(structure.employees)
       /\ structure.employees[c].manager \in EmployeeNames(structure.employees)
       /\ Includes(structure.rootEmployees, structure.employees[b].name)
       /\ ~Includes(structure.rootEmployees, structure.employees[c].name)
       /\ Includes(structure.errors,
                   MissingManagerError(structure.employees[b].name,
                                       structure.employees[b].manager))

\* Every name in a directReports list is a node managed by the list's node.
ReportsAreManaged(hierarchy) ==
  \A n \in DOMAIN hierarchy :
    \A k \in 1..Len(hierarchy[n].directReports) :
      LET d == hierarchy[n].directReports[k]
      IN d \in DOMAIN hierarchy /\ hierarchy[d].managerId = n

\* C15: every hierarchy built by generateHierarchy is bidirectionally
\* consistent: the node named by a node's managerId lists that node among its
\* directReports, and every directReports entry is a node managed by it.
C15_Bidirectional ==
  structure # NoStructure =>
    /\ \A n \in DOMAIN structure.hierarchy :
         structure.hierarchy[n].managerId # "" =>
           /\ structure.hierarchy[n].managerId \in DOMAIN structure.hierarchy
           /\ Includes(structure.hierarchy[structure.hierarchy[n].managerId].directReports, n)
    /\ ReportsAreManaged(structure.hierarchy)

\* C15 as the code has it: a managerId that names a node is listed back by
\* that node; a managerId that names no node is kept, and then the node is a
\* root and carries the missing-manager error; directReports entries are
\* nodes managed by the list's node.
C15_BidirectionalAmongNodes ==
  structure # NoStructure =>
    /\ \A n \in DOMAIN structure.hierarchy :
         LET m == structure.hierarchy[n].managerId
         IN /\ m \in DOMAIN structure.hierarchy =>
                 Occurrences(structure.hierarchy[m].directReports, n) = 1
            /\ (m # "" /\ m \notin DOMAIN structure.hierarchy) =>
                 /\ Includes(structure.rootEmployees, n)
                 /\ Includes(structure.errors, MissingManagerError(n, m))
    /\ ReportsAreManaged(structure.hierarchy)

\* A manager with a direct report next to an employee whose manager is no
\* node.
C15_Witness ==
  /\ structure # NoStructure
  /\ \E n \in DOMAIN structure.hierarchy : structure.hierarchy[n].directReports # <<>>
  /\ \E n \in DOMAIN structure.hierarchy :
       /\ structure.hierarchy[n].managerId # ""
       /\ structure.hierarchy[n].managerId \notin DOMAIN structure.hierarchy

\* The call had no manager column and the data rows have distinct non-empty
\* names.
FlatCall ==
  /\ structure # NoStructure
  /\ call.managerColumn = NoManagerColumn
  /\ \A i \in DataRows : FirstOfName(i)

\* C16: on a grid whose rows have distinct non-empty names, generateHierarchy
\* called without a manager column makes every row a root and records no
\* error, and validateStructure accepts the result.
C16_FlatHierarchyAccepted ==
  FlatCall =>
    /\ structure.rootEmployees = [i \in DataRows |-> RowName(i)]
    /\ Len(structure.employees) = Len(grid) - 1
    /\ \A k \in 1..Len(structure.employees) : structure.employees[k].manager = ""
    /\ structure.errors = <<>>
    /\ validateStructure(structure) = [isValid |-> TRUE, issues |-> 0]

\* Three rows with distinct names were made roots although their second
\* cells hold names.
C16_Witness ==
  /\ FlatCall
  /\ Len(structure.rootEmployees) = MaxRows
  /\ \A i \in DataRows : grid[i + 1][2] # ""
  /\ validateStructure(structure).isValid

\* C17: parseUploadedFile rejects the import and persists no employee when
\* identifyColumns finds no name column; with a name column and no manager
\* column it succeeds and every imported employee is a root whose managerId
\* is null.
C17_MissingColumns ==
  upload.status # "none" =>
    /\ upload.columns = identifyColumns(grid)
    /\ upload.columns.nameColumn = NullColumn =>
         /\ upload.status = "error"
         /\ employee = <<>>
         /\ \A o \in Orgs : orgEmployees[o] = <<>>
    /\ (upload.columns.nameColumn # NullColumn /\ upload.columns.managerColumn = NullColumn) =>
         /\ upload.status = "success"
         /\ employee = upload.employees
         /\ \A i \in DOMAIN employee : employee[i].managerId = NullId
         /\ Range(upload.structure.rootEmployees) = EmployeeNames(upload.structure.employees)

\* An import without a manager column persisted two employees as roots
\* although a cell of the other column holds the name of an employee.
C17_Witness ==
  /\ upload.status = "success"
  /\ upload.columns.managerColumn = NullColumn
  /\ Len(upload.employees) >= 2
  /\ \A i \in DOMAIN employee : employee[i].managerId = NullId
  /\ \E i \in 2..Len(grid) : grid[i][2] \in EmployeeNames(upload.structure.employees)

\* The 0-based columns whose trimmed header matches a name pattern or a
\* manager pattern, and the least member of a set of columns.
NameHeaders == {c \in 0..(Len(grid[1]) - 1) : MatchesNamePattern(Trim(grid[1][c + 1]))}

ManagerHeaders == {c \in 0..(Len(grid[1]) - 1) : MatchesManagerPattern(Trim(grid[1][c + 1]))}

Leftmost(columns) == CHOOSE c \in columns : \A d \in columns : c <= d

\* C18: when a header matches a name pattern and a header matches a manager
\* pattern, identifyColumns returns the leftmost of each, whatever the data
\* rows hold, with a confidence above 0.5 and at most 1; the headers
\* [Name, Title, Manager] give nameColumn 0 and managerColumn 2.
C18_HeaderMatchesDecide ==
  (identified.status = "returned" /\ NameHeaders # {} /\ ManagerHeaders # {}) =>
    /\ identified.result.nameColumn = Leftmost(NameHeaders)
    /\ identified.result.managerColumn = Leftmost(ManagerHeaders)
    /\ identified.result.confidence > 5
    /\ identified.result.confidence <= 10
    /\ grid[1] = <<"Name", "Title", "Manager">> =>
         /\ identified.result.nameColumn = 0
         /\ identified.result.managerColumn = 2

\* Two headers match a name pattern and the left one was returned, over data
\* rows whose first column holds repeated two-word names.
C18_Witness ==
  /\ identified.status = "returned"
  /\ Cardinality(NameHeaders) = 2
  /\ ManagerHeaders # {}
  /\ identified.result.nameColumn = Leftmost(NameHeaders)
  /\ identified.result.nameColumn # 0
  /\ Len(grid) = 3
  /\ grid[2][1] = "Al Bo" /\ grid[3][1] = "Al Bo"

\* The columns whose sampled values are all names of two or more words.
TwoWordNameColumns ==
  {c \in 0..(Len(grid[1]) - 1) :
     /\ Len(grid) >= 2
     /\ \A i \in 2..Len(grid) :
          i <= SAMPLE_ROWS + 1 => LooksLikeName(Cell(grid[i], c)) /\ HasTwoWords(Cell(grid[i], c))}

\* C19: when no header matches a name pattern and the sampled values of some
\* column are all alphabetic names of two or more words, identifyColumns
\* returns such a column as nameColumn through the fallback, and the
\* confidence includes the 0.2 of a fallback match.
C19_NameFallback ==
  (identified.status = "returned" /\ NameHeaders = {} /\ TwoWordNameColumns # {}) =>
    /\ identified.result.nameColumn \in TwoWordNameColumns
    /\ identified.result.confidence >= FALLBACK_BOOST

\* identifyColumns returned for a grid without a name header whose first
\* column holds two-word names only.
C19_Witness ==
  /\ identified.status = "returned"
  /\ NameHeaders = {}
  /\ 0 \in TwoWordNameColumns
  /\ Len(grid) = 3

\* C20: identifyColumns never returns one column for two fields: the columns
\* among nameColumn, managerColumn and titleColumn that are not null differ
\* pairwise, also when the manager column comes from the fallback.
C20_DistinctColumns ==
  identified.status = "returned" =>
    LET r == identified.result
    IN /\ (r.nameColumn # NullColumn /\ r.managerColumn # NullColumn) =>
            r.nameColumn # r.managerColumn
       /\ (r.nameColumn # NullColumn /\ r.titleColumn # NullColumn) =>
            r.nameColumn # r.titleColumn
       /\ (r.managerColumn # NullColumn /\ r.titleColumn # NullColumn) =>
            r.managerColumn # r.titleColumn

\* The manager column was found by the fallback next to a name column found
\* by its header.
C20_Witness ==
  /\ identified.status = "returned"
  /\ NameHeaders # {}
  /\ ManagerHeaders = {}
  /\ identified.result.managerColumn # NullColumn

\* C28: parseUploadedFile builds the hierarchy with the manager column that
\* identifyColumns resolved: generateHierarchy receives that index whenever
\* it is not null, column 0 included, and -1 only when it is null.
C28_ResolvedManagerColumnUsed ==
  upload.status = "success" =>
    upload.structure =
      generateHierarchy(grid, upload.columns.nameColumn,
                        IF upload.columns.managerColumn = NullColumn
                        THEN NoManagerColumn ELSE upload.columns.managerColumn)

\* An upload whose manager column was resolved to column 0 and whose rows
\* name employees as managers.
C28_Witness ==
  /\ upload.status = "success"
  /\ upload.columns.managerColumn = 0
  /\ \E i \in 2..Len(grid) : grid[i][1] \in EmployeeNames(upload.structure.employees)

(***************************************************************************)
(* The layout of the chart viewer.                                         *)
(***************************************************************************)
\* The laid-out nodes, and the horizontal extent of the subtree of one: its
\* centre minus and plus half its computed subtree width.
LaidOut == getAllNodes(view.positionedTree)

ExtentLeft(node) == node.x + nodeWidth \div 2 - calculateSubtreeWidth(node) \div 2

ExtentRight(node) == node.x + nodeWidth \div 2 + calculateSubtreeWidth(node) \div 2

ExtentsApart(a, b) == ExtentRight(a) <= ExtentLeft(b) \/ ExtentRight(b) <= ExtentLeft(a)

RootsApart ==
  \A i \in 1..Len(view.positionedTree), j \in 1..Len(view.positionedTree) :
    i < j => ExtentsApart(view.positionedTree[i], view.positionedTree[j])

\* C21 as stated: any two laid-out sibling subtrees, two children of one node
\* or two roots, have horizontal extents that do not overlap, also when the
\* children of the node wrap into several rows.
C21_SiblingExtentsApart ==
  /\ RootsApart
  /\ \A n \in 1..Len(LaidOut) :
       \A i \in 1..Len(LaidOut[n].children), j \in 1..Len(LaidOut[n].children) :
         i < j => ExtentsApart(LaidOut[n].children[i], LaidOut[n].children[j])

\* C21 amended: two roots, and two children of one node that lie in the same
\* row of that node, have horizontal extents that do not overlap; the rows of
\* a wrapped node are each centred under it, one below the other.
C21_SameRowExtentsApart ==
  /\ RootsApart
  /\ \A n \in 1..Len(LaidOut) :
       \A i \in 1..Len(LaidOut[n].children), j \in 1..Len(LaidOut[n].children) :
         (i < j /\ RowOfChild(i) = RowOfChild(j))
           => ExtentsApart(LaidOut[n].children[i], LaidOut[n].children[j])

\* A node whose children wrap is laid out, one of its children with reports
\* of its own, beside a second root.
C21_Witness ==
  /\ Len(view.positionedTree) = 2
  /\ \E n \in 1..Len(LaidOut) :
       /\ Len(LaidOut[n].children) > maxChildrenPerRow
       /\ \E i \in 1..Len(LaidOut[n].children) : Len(LaidOut[n].children[i].children) > 0

BoxesIntersect(a, b) ==
  /\ a.x < b.x + nodeWidth
  /\ b.x < a.x + nodeWidth
  /\ a.y < b.y + nodeHeight
  /\ b.y < a.y + nodeHeight

\* C22: no two laid-out nodes have bounding boxes (nodeWidth by nodeHeight)
\* that intersect: a wrapped row lies below everything of the rows above it.
C22_NoBoxesIntersect ==
  \A i \in 1..Len(LaidOut), j \in 1..Len(LaidOut) :
    i < j => ~ BoxesIntersect(LaidOut[i], LaidOut[j])

\* A wrapped node with a wrapped child is laid out.
C22_Witness ==
  \E n \in 1..Len(LaidOut) :
    /\ Len(LaidOut[n].children) > maxChildrenPerRow
    /\ \E i \in 1..Len(LaidOut[n].children) :
         Len(LaidOut[n].children[i].children) > maxChildrenPerRow

(***************************************************************************)
(* The precheck of a drop and the focus view.                              *)
(***************************************************************************)
\* The ids above id in the viewer's employees: its manager, the manager of
\* that one, and so on.
ChainAbove(id) == Managers(view.employees, id)

\* C27: a drop of E on M in a viewer that is not saving calls no
\* onManagerChange exactly when E = M or E is in the chain of managers above
\* M, and these are the pairs the validator's self-management and circular
\* checks reject on the same employees; cycles in the set do not matter.
C27_PrecheckIsTheValidatorsCheck ==
  (view.drop.called # "none" /\ ~ view.drop.isSaving) =>
    LET E == view.drop.employeeId
        M == view.drop.targetId
    IN /\ view.drop.called # "onManagerChange" <=> (E = M \/ E \in ChainAbove(M))
       /\ view.drop.called # "onManagerChange" <=>
            (E = M \/ checkCircularRelationship(E, M, Returned(view.employees)))

\* A drop is refused for a manager two links up, in a set that holds a cycle.
C27_Witness ==
  /\ view.drop.called = "onCircularReferenceError"
  /\ ~ view.drop.isSaving
  /\ ManagerIdOf(view.employees, view.drop.targetId) # view.drop.employeeId
  /\ \E id \in EmpIds : id \in ChainAbove(id)

\* C29: the focus view is computed: getAncestors, once entered, returns and
\* the render completes, whatever the employees are.
C29_FocusViewIsComputed ==
  (view.focus.pc = "getAncestors") ~> (view.focus.pc = "rendered")

\* getAncestors is walking from an employee whose chain of managers holds a
\* cycle, and has met every id of the chain.
C29_Witness ==
  /\ view.focus.pc = "getAncestors"
  /\ view.focus.currentId # NullId
  /\ view.focus.currentId \in view.focus.ancestors

(***************************************************************************)
(* The save flow of the chart page.                                        *)
(***************************************************************************)
\* The slots of the page whose updateManager request is in flight.
SavesInFlight == {r \in Requests : page.saves[r] # NoSave}

\* C23: isSaving is true exactly while an updateManager request issued by
\* handleManagerChange is in flight.
C23_SavingExactlyWhileInFlight == page.isSaving <=> SavesInFlight # {}

\* A save is in flight.
C23_Witness == SavesInFlight # {}

\* C24: at most one updateManager request of the page is in flight.
C24_OneSaveInFlight == Cardinality(SavesInFlight) <= 1

\* A save is in flight and the server is working on it.
C24_Witness == \E r \in SavesInFlight : req[r].pc = "awaitOrganization"

\* The step in which the request of slot r fails and the page handles it.
SaveFails(r) ==
  /\ page.saves[r] # NoSave
  /\ page'.saves[r] = NoSave
  /\ req[r].outcome # "success"

\* The step in which handleManagerChange is called and takes slot r.
SaveStarts(r) == page.saves[r] = NoSave /\ page'.saves[r] # NoSave

\* C25: when a request fails, the moved employee's managerId in the store is
\* what it was immediately before handleManagerChange was called, every other
\* employee is as before, saveError is the failure message, isSaving is false.
C25_FailureUndoesTheChange ==
  [][\A r \in Requests :
       /\ SaveStarts(r) =>
            page'.saves[r].previousManagerId
              = page.employees[page'.saves[r].employeeId].managerId
       /\ SaveFails(r) =>
            /\ \A i \in 1..Len(page.employees) :
                 page'.employees[i] =
                   IF page.employees[i].id = page.saves[r].employeeId
                   THEN [page.employees[i] EXCEPT
                           !.managerId = page.saves[r].previousManagerId]
                   ELSE page.employees[i]
            /\ page'.saveError = req[r].outcome
            /\ page'.saveError # NoError
            /\ ~ page'.isSaving]_vars

\* A failed save was undone: the employee is back under the manager it had,
\* which is not the one it was dropped on.
C25_Witness ==
  /\ page.saveError # NoError
  /\ page.failed # NoOperation
  /\ SavesInFlight = {}
  /\ page.employees[page.failed.employeeId].managerId # page.failed.newManagerId
  /\ page.employees[page.failed.employeeId].managerId # NullId

C30_ClientAgreesWithServer ==
  SavesInFlight = {} =>
    \A i \in EmpIds : page.employees[i].managerId = employee[i].managerId

\* Two saves were started and none is in flight.
C30_Witness == page.started >= 2 /\ SavesInFlight = {}

====
